---- MODULE Spec2Model ----
(***************************************************************************)
(* Media pipeline and caption-alignment engine of gemini-vibecut.          *)
(*                                                                         *)
(*   Spec          the three animation pipelines of AnimatedStoryGenerator *)
(*                 (plain, dialogue, music) driven by a streaming consumer *)
(*                 or by the non-streaming wrapper                         *)
(*                 (skills/generate_animated_story/generate_animated_story.py, *)
(*                  skills/compose_final/compose_final.py,                 *)
(*                  skills/verify_output.py)                               *)
(*   SpecSanitize  _sanitize_word_segments on bounded word timings         *)
(*   SpecGrouping  CaptionAligner._group_into_phrases on bounded scripts   *)
(*                 and word texts                                          *)
(*   SpecLines     CaptionAligner.align_dialogue_lines on bounded lines    *)
(*                 (all three: skills/align_captions/align_captions.py)    *)
(*   SpecComposer  VideoComposer.concatenate_scenes, concatenate_audio and *)
(*                 add_audio_to_clip (skills/compose_final/compose_final.py) *)
(*   SpecVerify    verify_video with every combination of expectations     *)
(*                 (skills/verify_output.py)                               *)
(*   SpecTTS       the voice cache of one QwenTTS instance under           *)
(*                 concurrent calls (skills/qwen_tts/qwen_tts.py)          *)
(*   SpecManga     MangaGenerator.generate_manga_streaming and             *)
(*                 generate_manga (skills/generate_manga/generate_manga.py) *)
(*   SpecPlan      the composition plan of generate_music                  *)
(*                 (skills/generate_music/elevenlabs_music.py)             *)
(*   SpecAlign     the captions of the phrase grouping and of              *)
(*                 align_dialogue_lines together                           *)
(*   SpecDialogueAudio  Step 2 of the dialogue pipeline: the batch call of *)
(*                 QwenTTS.generate_dialogue and its report                *)
(*   SpecPoll, SpecPollFair  the polling loops of poll_operation,          *)
(*                 _call_tts_api and evaluate_clip                         *)
(*                 (skills/generate_video/generate_video.py,               *)
(*                  skills/qwen_tts/qwen_tts.py)                           *)
(*   SpecKaraoke   CaptionRenderer._generate_ass_content on one caption    *)
(*                 (skills/render_captions/render_captions.py)             *)
(*   SpecStreams   the event streams of the three animation pipelines and  *)
(*                 of generate_manga_streaming together                    *)
(*   SpecLyrics    Step 6 of the music pipeline: the lyrics captions       *)
(*                 against the composition plan of the song                *)
(*   SpecRuns      two dialogue-mode runs in flight on one output          *)
(*                 directory and the files they write                      *)
(***************************************************************************)
EXTENDS Integers, Sequences, FiniteSets, TLC

VARIABLES
    \* ---- animation pipeline: the request ----
    mode,               \* "plain" | "dialogue" | "music": which pipeline runs
    panel_paths,        \* per panel: TRUE iff _get_panel_image_path found an image
    music_path_exists,  \* music_path given and present on disk (plain, dialogue)
    enable_captions,    \* enable_captions (dialogue) / enable_lyrics (music)
    dialogues,          \* per panel: TRUE iff _parse_dialogue returned a line
    \* ---- animation pipeline: the generator ----
    pc,                 \* position of the streaming generator
    i,                  \* panel index of the clip loop (1-based)
    attempt,            \* attempt of the retry loop (0-based)
    video_result,       \* "None" | "nopath" | "ok": video_result of the retry loop
    new_clip,           \* the file of the clip the generator last returned
    gen_log,            \* calls and sleeps of the retry loop of the current panel
    clips,              \* the list clips
    clips_failed,       \* the counter clips_failed
    gen_ok,             \* panels whose clip generation returned a video file
    lastEvent,          \* the last event the generator yielded
    terminalCount,      \* number of 'complete' and 'error' events yielded
    complete_data,      \* payload of the 'complete' event
    last_concat,        \* the latest call of concatenate_scenes
    concat_count,       \* number of concatenate_scenes calls
    final_path,         \* final_path / final_video
    verify_calls,       \* number of verify_video calls
    verification,       \* the current VerificationResult
    wrapper_raised,     \* the non-streaming wrapper raised RuntimeError
    \* ---- animation pipeline: the two tasks of music mode ----
    vpc,                \* position of the video task (_generate_all_clips)
    video_task,         \* "none" | "running" | "returned" | "raised"
    music_task,         \* "none" | "running" | "returned" | "raised" | "cancelled"
    music_result,       \* TRUE iff music_result is not None
    pending,            \* the set pending of asyncio.wait
    to_handle,          \* tasks of the set done not yet handled by the for loop
    finish_order,       \* the finished tasks not yet handled, in completion order
    \* ---- animation pipeline: dialogue mode ----
    tts_ok,             \* TRUE iff tts.generate_dialogue returned its results
    audio_results,      \* per panel: TRUE iff audio_results[i] has an audio_path
    aligned_captions,   \* per panel: TRUE iff aligned_captions[i] has captions
    final_clips,        \* merged_clips, then final_clips
    \* ---- caption alignment: _sanitize_word_segments ----
    segments,       \* the input list of word segments [startMs, endMs]
    sanitized,      \* the list returned by _sanitize_word_segments
    spc,            \* "input" while the input is being built, "done" after the call
    \* ---- caption alignment: _group_into_phrases ----
    text,           \* the script, a sequence of characters
    word_segments,  \* the texts of the word segments, each a sequence of characters
    phrase_captions,\* the captions returned: [text, words], words by index
    gpc,            \* "input" while the input is being built, "done" after the call
    \* ---- caption alignment: align_dialogue_lines ----
    num_lines,      \* number of (audio_path, text) pairs
    line_no,        \* the pair the for loop is at (1-based)
    results,        \* the list results: [line, start_ms, end_ms]
    time_offset,    \* the local time_offset
    lpc,            \* "loop" | "returned" | "raised"
    \* ---- VideoComposer: one call of concatenate_scenes, concatenate_audio
    \* ---- or add_audio_to_clip ----
    method,         \* the method called
    cpc,            \* position inside the call, then "returned" | "raised"
    scenes,         \* scene_paths / audio_paths: the files as they are on disk
    target_size,    \* (target_width, target_height)
    probes,         \* the list probes: what _probe_video returned per clip
    clips_to_concat,\* the list clips_to_concat
    normalize_calls,\* number of _normalize_clip calls
    temp_files,     \* of the concat file and the norm dir, those on disk
    video_duration, \* the argument video_duration, in units of 0.05 s
    audio_len,      \* true length of the file audio_path, same unit
    audio_duration, \* what _get_audio_duration returned
    audio_to_use,   \* length of the file audio_to_use
    pad_calls,      \* number of pad_audio_to_duration calls
    out_duration,   \* length of the muxed output file
    \* ---- verify_output.py: one call of verify_video ----
    vfile,          \* what the filesystem and ffprobe report about path
    expectations,   \* the expectations passed in
    vresult,        \* the VerificationResult returned
    \* ---- qwen_tts.py: one QwenTTS instance in torch mode and its callers ----
    _character_voices, \* self._character_voices: per character a voice, 0 for none
    tcall,          \* per caller: the method called and its character_personas
    tpc,            \* per caller: position inside the call
    new_chars,      \* per caller: the personas handed to initialize_character_voices
    voices,         \* per caller: the dict voices of _initialize_voices_sync
    designed,       \* per character: number of voices designed so far
    \* ---- generate_manga.py: one run of generate_manga_streaming ----
    panel_count,    \* panel_count = len(story_beats)
    character_refs, \* per character reference: TRUE iff its image file loads
    mpc,            \* position of the generator
    panel_index,    \* i + 1 of the panel loop
    describe_calls, \* number of _describe_character calls
    image_requests, \* the image requests issued: [panel, previous_panel]
    previous_panel_part, \* the panel whose image is previous_panel_part, 0 for None
    panels,         \* the list panels, by panel index
    manga_event,    \* the last event yielded
    manga_terminals,\* number of 'complete' and 'error' events yielded
    total_panels,   \* 'total_panels' of the 'complete' event, -1 before it
    manga_raised,   \* generate_manga raised RuntimeError
    \* ---- elevenlabs_music.py: the composition plan of one generate_music call ----
    lyrics,         \* the lines of lyrics: "tag" | "blank" | "line"
    music_duration, \* the argument duration, in seconds
    section_seconds,\* the argument clip_duration, in seconds
    plan,           \* the MusicPrompt plan: its sections, and whether it was built
    \* ---- dialogue mode, Step 2: the batch call of tts.generate_dialogue ----
    tts_results,    \* the list tts_results: per dialogue line TRUE iff a TTSResult
    dialogue_results, \* the list results of generate_dialogue: the lines whose wav was written
    speech_calls,   \* the generate_speech calls and the sleeps, in order
    \* ---- the polling loops: poll_operation, _call_tts_api, evaluate_clip ----
    poll_loop,      \* "veo" | "tts" | "file": the loop that runs
    qpc,            \* position inside the loop, "ended" when its caller has the outcome
    elapsed,        \* seconds since start_time of poll_operation
    poll_attempt,   \* attempt of the pipeline's retry loop around the clip call
    poll_result,    \* the outcome of the last attempt, then of the call
    \* ---- render_captions.py: one call of _generate_ass_content ----
    kcaption,       \* the CaptionSegment: startMs, endMs and its words
    kparts,         \* the \k durations of the Dialogue line, in centiseconds
    kpc,            \* "idle" | "input" | "rendered"
    \* ---- music mode, Step 6: the panel-locked lyrics captions ----
    clip_ok,        \* per panel: TRUE iff _generate_all_clips returned a clip path
    caption_segments, \* the list caption_segments: panel, line, startMs, endMs
    ypc,            \* "idle" | "input" | "built"
    \* ---- two dialogue-mode runs that share the output directories ----
    runs            \* per run: its story_id, dialogue lines, position, files written

inputs == <<mode, panel_paths, music_path_exists, enable_captions,
            dialogues>>
loopv == <<i, attempt, video_result, new_clip, gen_log>>
clipv == <<clips, clips_failed, gen_ok>>
eventv == <<lastEvent, terminalCount, complete_data>>
composev == <<last_concat, concat_count, final_path, verify_calls, verification>>
taskv == <<vpc, video_task, music_task, music_result, pending, to_handle,
           finish_order>>
dlgv == <<tts_ok, audio_results, aligned_captions, final_clips>>
pvars == <<inputs, pc, loopv, clipv, eventv, composev, wrapper_raised, taskv, dlgv>>
svars == <<segments, sanitized, spc>>
gvars == <<text, word_segments, phrase_captions, gpc>>
lvars == <<num_lines, line_no, results, time_offset, lpc>>
cvars == <<method, cpc, scenes, target_size, probes, clips_to_concat,
           normalize_calls, temp_files, video_duration, audio_len,
           audio_duration, audio_to_use, pad_calls, out_duration>>
vvars == <<vfile, expectations, vresult>>
tvars == <<_character_voices, tcall, tpc, new_chars, voices, designed>>
mvars == <<panel_count, character_refs, mpc, panel_index, describe_calls,
           image_requests, previous_panel_part, panels, manga_event,
           manga_terminals, total_panels, manga_raised>>
uvars == <<lyrics, music_duration, section_seconds, plan>>
avars == <<tts_results, dialogue_results, speech_calls>>
qvars == <<poll_loop, qpc, elapsed, poll_attempt, poll_result>>
kvars == <<kcaption, kparts, kpc>>
yvars == <<clip_ok, caption_segments, ypc>>
wvars == <<kvars, yvars, runs>>
xvars == <<cvars, vvars, tvars, mvars, uvars, avars, qvars, wvars>>
others == <<svars, gvars, lvars, xvars>>
notComposer == <<pvars, svars, gvars, lvars, vvars, tvars, mvars, uvars, avars, qvars, wvars>>
notVerify == <<pvars, svars, gvars, lvars, cvars, tvars, mvars, uvars, avars, qvars, wvars>>
notTTS == <<pvars, svars, gvars, lvars, cvars, vvars, mvars, uvars, avars, qvars, wvars>>
notManga == <<pvars, svars, gvars, lvars, cvars, vvars, tvars, uvars, avars, qvars, wvars>>
notPlan == <<pvars, svars, gvars, lvars, cvars, vvars, tvars, mvars, avars, qvars, wvars>>
notPoll == <<pvars, svars, gvars, lvars, cvars, vvars, tvars, mvars, uvars, avars, wvars>>
base == <<pvars, svars, gvars, lvars, cvars, vvars, tvars, mvars, uvars, avars, qvars>>
vars == <<pvars, svars, gvars, lvars, xvars>>

\* ------------------------------------------------------------------------
\* Bounds
\* ------------------------------------------------------------------------
MaxPanels == 2        \* most panels in a manga result handed to a pipeline
MaxDialogueLines == 1  \* most panels that carry a dialogue line
MaxNormFail == 1      \* most clips whose normalization fails in one concatenation
MaxSegments == 3      \* longest word list handed to the sanitizer
MaxDelta == 0         \* word times are taken around 0 and around MIN_WORD_DURATION_MS
MaxTextLen == 4       \* longest script handed to the phrase grouping
MaxWords == 2         \* most word segments handed to the phrase grouping
MaxWordLen == 2       \* longest text of a word segment
MaxLines == 2         \* most dialogue lines handed to align_dialogue_lines
MaxLineWords == 2     \* most captions align_audio returns for one line
MaxScenes == 2        \* most files handed to one concatenation
MaxDuration == 4      \* longest clip and longest audio, in units of 0.05 s
MaxCallers == 2       \* most calls in flight on one QwenTTS instance
MaxCharacters == 2    \* most characters of a story
MaxStoryBeats == 7    \* most story beats of a manga request
MaxCharacterRefs == 3 \* most character references of a manga request
MaxLyricLines == 4    \* most lines of a lyrics text
MaxMusicSeconds == 4  \* longest music duration asked for, in seconds
MaxSectionSeconds == 2 \* longest clip_duration handed to generate_music
MaxBatchPanels == 3    \* most panels of a request whose dialogue is synthesized

NoCall == [scene_paths |-> <<>>, target |-> <<0, 0>>, needs_normalize |-> FALSE,
           clips_to_concat |-> <<>>]

\* ------------------------------------------------------------------------
\* align_captions.py
\* ------------------------------------------------------------------------
MIN_WORD_DURATION_MS == 50

Min(a, b) == IF a <= b THEN a ELSE b

\* the millisecond values a word boundary is drawn from (negative included)
Times == { o + d : o \in {0, MIN_WORD_DURATION_MS}, d \in (-1)..MaxDelta }

\* a variant of SanitizeOne without the 1 ms nudge
SanitizeOneNoNudge(segs, n) ==
    LET seg == segs[n]
        max_end == IF n + 1 <= Len(segs)
                   THEN segs[n + 1].startMs
                   ELSE seg.startMs + MIN_WORD_DURATION_MS
        capped == Min(seg.startMs + MIN_WORD_DURATION_MS, max_end)
    IN  IF seg.endMs <= seg.startMs
        THEN [seg EXCEPT !.endMs = capped]
        ELSE seg

\* a variant of SanitizeOne that does not cap endMs at the next word's startMs
SanitizeOneUncapped(segs, n) ==
    LET seg == segs[n]
        capped == seg.startMs + MIN_WORD_DURATION_MS
        nudged == IF capped <= seg.startMs THEN seg.startMs + 1 ELSE capped
    IN  IF seg.endMs <= seg.startMs
        THEN [seg EXCEPT !.endMs = nudged]
        ELSE seg

\* one iteration of the for loop of _sanitize_word_segments on segment n of segs
SanitizeOne(segs, n) ==
    LET seg == segs[n]
        max_end == IF n + 1 <= Len(segs)
                   THEN segs[n + 1].startMs
                   ELSE seg.startMs + MIN_WORD_DURATION_MS
        capped == Min(seg.startMs + MIN_WORD_DURATION_MS, max_end)
        nudged == IF capped <= seg.startMs THEN seg.startMs + 1 ELSE capped
    IN  IF seg.endMs <= seg.startMs
        THEN [seg EXCEPT !.endMs = nudged]
        ELSE seg

\* _sanitize_word_segments: the loop runs over the copy in index order; it
\* only writes endMs of the current segment and only reads startMs of the next
RECURSIVE SanitizeFrom(_, _)
SanitizeFrom(segs, n) ==
    IF n > Len(segs) THEN segs
    ELSE SanitizeFrom([segs EXCEPT ![n] = SanitizeOne(segs, n)], n + 1)

_sanitize_word_segments(segs) ==
    IF segs = <<>> THEN segs ELSE SanitizeFrom(segs, 1)

\* the pipeline is idle while the sanitizer is exercised
PipelineIdle ==
    /\ mode = "plain" /\ panel_paths = <<>>
    /\ music_path_exists = FALSE /\ enable_captions = FALSE /\ dialogues = <<>>
    /\ tts_ok = FALSE /\ audio_results = <<>> /\ aligned_captions = <<>>
    /\ final_clips = <<>>
    /\ pc = "idle" /\ i = 0 /\ attempt = 0 /\ video_result = "None"
    /\ new_clip = [panel |-> 0, res |-> <<0, 0>>, audio |-> FALSE,
                   captioned |-> FALSE, normalized |-> FALSE]
    /\ gen_log = <<>> /\ clips = <<>> /\ clips_failed = 0 /\ gen_ok = {}
    /\ lastEvent = "none" /\ terminalCount = 0 /\ complete_data = [type |-> "none"]
    /\ last_concat = NoCall /\ concat_count = 0 /\ final_path = [res |-> <<0, 0>>, steps |-> {}]
    /\ verify_calls = 0
    /\ verification = [passed |-> TRUE, failures |-> {}, actual |-> <<0, 0>>]
    /\ wrapper_raised = FALSE
    /\ vpc = "none" /\ video_task = "none" /\ music_task = "none"
    /\ music_result = FALSE /\ pending = {} /\ to_handle = {}
    /\ finish_order = <<>>

\* the sanitizer is idle
SanitizerIdle == segments = <<>> /\ sanitized = <<>> /\ spc = "idle"

\* the phrase grouping is idle
GroupingIdle ==
    /\ text = <<>> /\ word_segments = <<>> /\ phrase_captions = <<>>
    /\ gpc = "idle"

\* align_dialogue_lines is idle
LinesIdle ==
    /\ num_lines = 0 /\ line_no = 0 /\ results = <<>> /\ time_offset = 0
    /\ lpc = "idle"

\* no method of the VideoComposer is being called
ComposerIdle ==
    /\ method = "none" /\ cpc = "idle" /\ scenes = <<>> /\ target_size = <<0, 0>>
    /\ probes = <<>> /\ clips_to_concat = <<>> /\ normalize_calls = 0
    /\ temp_files = {} /\ video_duration = 0 /\ audio_len = 0
    /\ audio_duration = 0 /\ audio_to_use = 0 /\ pad_calls = 0
    /\ out_duration = 0

\* verify_video is not being called
VerifyIdle ==
    /\ vfile = [exists |-> FALSE] /\ expectations = [require_audio |-> FALSE]
    /\ vresult = [returned |-> FALSE]

\* no QwenTTS instance exists
TTSIdle ==
    /\ _character_voices = <<>> /\ tcall = <<>> /\ tpc = <<>>
    /\ new_chars = <<>> /\ voices = <<>> /\ designed = <<>>

\* no manga is being generated
MangaIdle ==
    /\ panel_count = 0 /\ character_refs = <<>> /\ mpc = "idle"
    /\ panel_index = 0 /\ describe_calls = 0 /\ image_requests = <<>>
    /\ previous_panel_part = 0 /\ panels = <<>> /\ manga_event = "none"
    /\ manga_terminals = 0 /\ total_panels = -1 /\ manga_raised = FALSE

\* generate_music is not being called
PlanIdle ==
    /\ lyrics = <<>> /\ music_duration = 0 /\ section_seconds = 0
    /\ plan = [built |-> FALSE, sections |-> <<>>]

\* tts.generate_dialogue is not being called
DialogueAudioIdle ==
    tts_results = <<>> /\ dialogue_results = <<>> /\ speech_calls = <<>>

\* no polling loop runs
PollIdle ==
    /\ poll_loop = "none" /\ qpc = "idle" /\ elapsed = 0 /\ poll_attempt = 0
    /\ poll_result = "none"

\* _generate_ass_content is not being called
KaraokeIdle ==
    kcaption = [startMs |-> 0, endMs |-> 0, words |-> <<>>] /\ kparts = <<>>
    /\ kpc = "idle"

\* the lyrics captions are not being built
LyricsIdle == clip_ok = <<>> /\ caption_segments = <<>> /\ ypc = "idle"

RunsIdle == runs = <<>>

ExtrasIdle == KaraokeIdle /\ LyricsIdle /\ RunsIdle

\* the components the caption claims and the pipeline claims leave alone
UnitsIdle ==
    /\ ComposerIdle /\ VerifyIdle /\ TTSIdle /\ MangaIdle /\ PlanIdle
    /\ DialogueAudioIdle /\ PollIdle /\ ExtrasIdle

InitSanitize ==
    /\ PipelineIdle /\ GroupingIdle /\ LinesIdle /\ UnitsIdle
    /\ segments = <<>>
    /\ sanitized = <<>>
    /\ spc = "input"

\* the aligner returns one more word segment
AddSegment ==
    /\ spc = "input"
    /\ Len(segments) < MaxSegments
    /\ \E s \in Times, e \in Times :
          segments' = Append(segments, [text |-> Len(segments) + 1,
                                        startMs |-> s, endMs |-> e])
    /\ UNCHANGED <<sanitized, spc, pvars, gvars, lvars, xvars>>

\* word_segments = _sanitize_word_segments(word_segments)
Sanitize ==
    /\ spc = "input"
    /\ sanitized' = _sanitize_word_segments(segments)
    /\ spc' = "done"
    /\ UNCHANGED <<segments, pvars, gvars, lvars, xvars>>

NextSanitize ==
    \/ AddSegment
    \/ Sanitize

SpecSanitize == InitSanitize /\ [][NextSanitize]_vars

\* C4: for every input sequence of word segments (any integer times, any
\* order, the empty sequence included) every segment that
\* _sanitize_word_segments returns has endMs > startMs.
C4_SanitizedPositiveDuration ==
    spc = "done" =>
        /\ Len(sanitized) = Len(segments)
        /\ \A k \in 1..Len(sanitized) : sanitized[k].endMs > sanitized[k].startMs

\* a sanitized list of three words with a zero-duration word whose successor
\* starts at the same millisecond
C4_Witness ==
    /\ spc = "done" /\ Len(segments) = 3
    /\ \E k \in 1..2 :
          /\ segments[k].endMs = segments[k].startMs
          /\ segments[k + 1].startMs = segments[k].startMs

\* C5: after _sanitize_word_segments every adjacent pair of words satisfies
\* words[i].endMs <= words[i+1].startMs, also when two consecutive words
\* start at the same millisecond.
C5_SanitizedNoOverlap ==
    spc = "done" =>
        \A k \in 1..(Len(sanitized) - 1) :
            sanitized[k].endMs <= sanitized[k + 1].startMs

\* two consecutive words start at the same millisecond, the first has no
\* duration, and after sanitization it ends after the second one starts
C5_Witness ==
    /\ spc = "done"
    /\ \E k \in 1..(Len(segments) - 1) :
          /\ segments[k].endMs = segments[k].startMs
          /\ segments[k + 1].startMs = segments[k].startMs
          /\ segments[k + 1].endMs > segments[k + 1].startMs
          /\ sanitized[k].endMs > sanitized[k + 1].startMs

\* ------------------------------------------------------------------------
\* align_captions.py: _split_into_phrases and _group_into_phrases (English)
\* ------------------------------------------------------------------------

\* the characters of r'[,.!?;:"""()[\]{}\s]'
Punct == {",", ".", "!", "?", ";", ":", "\"", "(", ")", "[", "]", "{", "}", " "}

\* the characters of r'[.!?;]'
Delims == {".", "!", "?", ";"}

\* the characters scripts and word texts are made of
TextChars == {"a", ".", " "}
WordChars == {"a", "."}

SeqsUpTo(S, n) == UNION { [1..k -> S] : k \in 0..n }

\* re.split(r'[.!?;]', t)
RECURSIVE SplitOnDelims(_)
SplitOnDelims(t) ==
    LET ks == { k \in 1..Len(t) : t[k] \in Delims }
    IN  IF ks = {} THEN <<t>>
        ELSE LET k == CHOOSE x \in ks : \A y \in ks : x <= y
             IN  <<SubSeq(t, 1, k - 1)>> \o SplitOnDelims(SubSeq(t, k + 1, Len(t)))

\* str.strip()
RECURSIVE Strip(_)
Strip(t) ==
    IF t # <<>> /\ Head(t) = " " THEN Strip(Tail(t))
    ELSE IF t # <<>> /\ t[Len(t)] = " " THEN Strip(SubSeq(t, 1, Len(t) - 1))
    ELSE t

\* _split_into_phrases, the English branch: [p.strip() for p in parts if p.strip()]
_split_into_phrases(t) ==
    LET parts == SplitOnDelims(t)
    IN  SelectSeq([k \in 1..Len(parts) |-> Strip(parts[k])], LAMBDA q : q # <<>>)

\* re.sub(r'[,.!?;:"""()[\]{}\s]', '', t)
Clean(t) == SelectSeq(t, LAMBDA c : c \notin Punct)

\* re.match(r'^[,.!?;:"""()[\]{}\s]+$', wtext)
PunctOnly(w) == w # <<>> /\ \A k \in 1..Len(w) : w[k] \in Punct

\* the loop that builds word_positions: a punctuation-only word is skipped,
\* every other word takes len(wtext) positions of all_words_text
RECURSIVE WordPositions(_, _, _, _)
WordPositions(ws, n, pos, acc) ==
    IF n > Len(ws) THEN acc
    ELSE IF PunctOnly(ws[n]) THEN WordPositions(ws, n + 1, pos, acc)
    ELSE WordPositions(ws, n + 1, pos + Len(ws[n]),
                       Append(acc, [start_pos |-> pos,
                                    end_pos |-> pos + Len(ws[n]),
                                    word_idx |-> n]))

\* the times of word segment n after _sanitize_word_segments; the grouping
\* reads the texts only, so one word of MIN_WORD_DURATION_MS after the other
WordTimes(n) == [startMs |-> (n - 1) * MIN_WORD_DURATION_MS,
                 endMs |-> n * MIN_WORD_DURATION_MS]

\* the loop over the phrases: a phrase takes len(phrase_clean) positions; a
\* word belongs to it if start_pos < phrase_end and end_pos > phrase_start;
\* a phrase without words is not emitted
RECURSIVE PhraseCaptions(_, _, _, _, _)
PhraseCaptions(phrases, k, current_pos, word_positions, acc) ==
    IF k > Len(phrases) THEN acc
    ELSE LET phrase_start == current_pos
             phrase_end == phrase_start + Len(Clean(phrases[k]))
             hits == SelectSeq(word_positions,
                               LAMBDA q : q.start_pos < phrase_end
                                          /\ q.end_pos > phrase_start)
             phrase_words == [j \in 1..Len(hits) |-> hits[j].word_idx]
         IN  PhraseCaptions(phrases, k + 1, phrase_end, word_positions,
                            IF phrase_words # <<>>
                            THEN Append(acc,
                                   [text |-> phrases[k],
                                    start_ms |-> WordTimes(phrase_words[1]).startMs,
                                    end_ms |-> WordTimes(phrase_words[Len(phrase_words)]).endMs,
                                    words |-> phrase_words])
                            ELSE acc)

_group_into_phrases(ws, t) ==
    PhraseCaptions(_split_into_phrases(t), 1, 0, WordPositions(ws, 1, 0, <<>>), <<>>)

InitGrouping ==
    /\ PipelineIdle /\ SanitizerIdle /\ LinesIdle /\ UnitsIdle
    /\ text \in SeqsUpTo(TextChars, MaxTextLen)
    /\ word_segments = <<>>
    /\ phrase_captions = <<>>
    /\ gpc = "input"

\* the aligner returns one more word
AddWord ==
    /\ gpc = "input"
    /\ Len(word_segments) < MaxWords
    /\ \E w \in SeqsUpTo(WordChars, MaxWordLen) \ {<<>>} :
          word_segments' = Append(word_segments, w)
    /\ UNCHANGED <<text, phrase_captions, gpc, pvars, svars, lvars, xvars>>

\* return self._group_into_phrases(word_segments, text, language)
GroupIntoPhrases ==
    /\ gpc = "input"
    /\ phrase_captions' = _group_into_phrases(word_segments, text)
    /\ gpc' = "done"
    /\ UNCHANGED <<text, word_segments, pvars, svars, lvars, xvars>>

NextGrouping ==
    \/ AddWord
    \/ GroupIntoPhrases

SpecGrouping == InitGrouping /\ [][NextGrouping]_vars

\* C6: every input word is assigned to at most one output phrase, and the
\* captions hold nothing that is not an input word.
C6_WordInAtMostOnePhrase ==
    gpc = "done" =>
        /\ \A w \in 1..Len(word_segments) :
              Cardinality({ k \in 1..Len(phrase_captions) :
                              \E j \in 1..Len(phrase_captions[k].words) :
                                  phrase_captions[k].words[j] = w }) <= 1
        /\ \A k \in 1..Len(phrase_captions) :
              \A j \in 1..Len(phrase_captions[k].words) :
                  phrase_captions[k].words[j] \in 1..Len(word_segments)

\* a word of letters only that lies across the boundary of two phrases is in
\* the captions of both
C6_Witness ==
    /\ gpc = "done" /\ Len(phrase_captions) = 2
    /\ \E w \in 1..Len(word_segments) :
          /\ \A c \in 1..Len(word_segments[w]) : word_segments[w][c] = "a"
          /\ \A k \in 1..2 : \E j \in 1..Len(phrase_captions[k].words) :
                phrase_captions[k].words[j] = w

\* ------------------------------------------------------------------------
\* align_captions.py: CaptionAligner.align_dialogue_lines
\* ------------------------------------------------------------------------

\* the millisecond values of the captions of one line
Millis == {0, 100, 200}

\* the word-level captions align_audio returns for one line: after
\* _sanitize_word_segments every word has end_ms > start_ms
LineCaption == { c \in [start_ms : Millis, end_ms : Millis] : c.end_ms > c.start_ms }

InitLines ==
    /\ PipelineIdle /\ SanitizerIdle /\ GroupingIdle /\ UnitsIdle
    /\ num_lines \in 0..MaxLines
    /\ line_no = 1
    /\ results = <<>>
    /\ time_offset = 0
    /\ lpc = "loop"

\* a variant of AlignLine that adds time_offset to the caption but not to
\* its words
AlignLineWordsNotOffset ==
    /\ lpc = "loop" /\ line_no <= num_lines
    /\ \E captions \in SeqsUpTo(LineCaption, MaxLineWords) :
          /\ results' = results \o
                [k \in 1..Len(captions) |->
                    [line |-> line_no,
                     start_ms |-> captions[k].start_ms + time_offset,
                     end_ms |-> captions[k].end_ms + time_offset,
                     words |-> <<[start_ms |-> captions[k].start_ms,
                                  end_ms |-> captions[k].end_ms]>>]]
          /\ time_offset' = IF captions # <<>>
                            THEN results'[Len(results')].end_ms
                            ELSE time_offset
    /\ line_no' = line_no + 1
    /\ UNCHANGED <<num_lines, lpc, pvars, svars, gvars, xvars>>

\* one iteration of the for loop: align_audio returns the word-level captions
\* of the line (each with its one word), each is appended with time_offset
\* added to the caption and to its words, and time_offset becomes
\* results[-1].end_ms when the line had captions
AlignLine ==
    /\ lpc = "loop" /\ line_no <= num_lines
    /\ \E captions \in SeqsUpTo(LineCaption, MaxLineWords) :
          /\ results' = results \o
                [k \in 1..Len(captions) |->
                    [line |-> line_no,
                     start_ms |-> captions[k].start_ms + time_offset,
                     end_ms |-> captions[k].end_ms + time_offset,
                     words |-> <<[start_ms |-> captions[k].start_ms + time_offset,
                                  end_ms |-> captions[k].end_ms + time_offset]>>]]
          /\ time_offset' = IF captions # <<>>
                            THEN results'[Len(results')].end_ms
                            ELSE time_offset
    /\ line_no' = line_no + 1
    /\ UNCHANGED <<num_lines, lpc, pvars, svars, gvars, xvars>>

\* align_audio raises: the exception leaves align_dialogue_lines
AlignRaises ==
    /\ lpc = "loop" /\ line_no <= num_lines
    /\ lpc' = "raised"
    /\ UNCHANGED <<num_lines, line_no, results, time_offset, pvars, svars, gvars, xvars>>

\* return results
ReturnResults ==
    /\ lpc = "loop" /\ line_no > num_lines
    /\ lpc' = "returned"
    /\ UNCHANGED <<num_lines, line_no, results, time_offset, pvars, svars, gvars, xvars>>

NextLines ==
    \/ AlignLine
    \/ AlignRaises
    \/ ReturnResults

SpecLines == InitLines /\ [][NextLines]_vars

\* C7: in the output of align_dialogue_lines every caption of line k+1 has
\* start_ms >= the end_ms of every caption of line k.
C7_LinesDoNotOverlap ==
    lpc = "returned" =>
        \A a, b \in 1..Len(results) :
            results[b].line = results[a].line + 1 =>
                results[b].start_ms >= results[a].end_ms

\* line 1 has a caption that ends after its last caption, and a caption of
\* line 2 starts before that end
C7_Witness ==
    /\ lpc = "returned"
    /\ \E a, b, c \in 1..Len(results) :
          /\ results[a].line = 1 /\ results[b].line = 1 /\ a < b
          /\ \A d \in 1..Len(results) : results[d].line = 1 => d <= b
          /\ results[a].end_ms > results[b].end_ms
          /\ results[c].line = 2
          /\ results[c].start_ms < results[a].end_ms

\* ------------------------------------------------------------------------
\* align_captions.py: the captions of align_audio (phrase level) and of
\* align_dialogue_lines (SpecAlign)
\* ------------------------------------------------------------------------
InitAlign == InitGrouping \/ InitLines

NextAlign == NextGrouping \/ NextLines

SpecAlign == InitAlign /\ [][NextAlign]_vars

\* C30: every caption of the phrase grouping and every caption in the list
\* of align_dialogue_lines (word level, offset added) has at least one word,
\* starts with its first word and ends with its last word
C30_CaptionSpansItsWords ==
    /\ \A k \in 1..Len(phrase_captions) :
          LET c == phrase_captions[k]
          IN  /\ c.words # <<>>
              /\ c.start_ms = WordTimes(c.words[1]).startMs
              /\ c.end_ms = WordTimes(c.words[Len(c.words)]).endMs
    /\ \A k \in 1..Len(results) :
          LET c == results[k]
          IN  /\ c.words # <<>>
              /\ c.start_ms = c.words[1].start_ms
              /\ c.end_ms = c.words[Len(c.words)].end_ms

\* align_dialogue_lines returned a caption of the second line that carries
\* the offset of the first line
C30_Witness ==
    /\ lpc = "returned" /\ num_lines = 2
    /\ \E a, b \in 1..Len(results) :
          /\ results[a].line = 1 /\ results[b].line = 2
          /\ time_offset > results[a].end_ms
          /\ results[b].start_ms >= results[a].end_ms
          /\ results[b].words[1].start_ms = results[b].start_ms
          /\ results[b].start_ms > 0

\* ------------------------------------------------------------------------
\* generate_animated_story.py, compose_final.py, verify_output.py
\* ------------------------------------------------------------------------
max_attempts == 3                 \* max_attempts = 3
RETRY_SLEEP_SECONDS == 2          \* await asyncio.sleep(2)
clip_duration == 4                \* clip_duration: int = 4
EXPECTED_RES == <<1080, 1920>>    \* expected_width=1080, expected_height=1920
VEO_RES == <<720, 1280>>          \* "Veo 720x1280 vs Remotion 1080x1920"
Resolutions == {VEO_RES, EXPECTED_RES}

Modes == {"plain", "dialogue", "music"}

ErrorEvents == {"error_no_panels", "error_no_images", "error_no_clips",
                "error_composition", "error_video_failed"}
TerminalEvents == ErrorEvents \cup {"complete"}

NoFile == [panel |-> 0, res |-> <<0, 0>>, audio |-> FALSE, captioned |-> FALSE,
           normalized |-> FALSE]
NoVideo == [res |-> <<0, 0>>, steps |-> {}]
NoVerification == [passed |-> TRUE, failures |-> {}, actual |-> <<0, 0>>]
GEN == [op |-> "generate", secs |-> 0]
SLEEP(n) == [op |-> "sleep", secs |-> n]

Range(f) == { f[k] : k \in DOMAIN f }
NumPanels == Len(panel_paths)

\* valid_clip_paths = [p for p, _ in clips if p is not None]
ValidClips(cs) == SelectSeq(cs, LAMBDA f : f.panel # 0)

\* yield AnimationStreamEvent(e, ...)
Emit(e) ==
    /\ lastEvent' = e
    /\ terminalCount' = terminalCount + (IF e \in TerminalEvents THEN 1 ELSE 0)

\* a variant of NeedsNormalize that asks for normalization as soon as one
\* resolution was probed
NeedsNormalizeAlways(scene_paths) ==
    Cardinality({ f.res : f \in { g \in Range(scene_paths) :
                                   g.res[1] > 0 /\ g.res[2] > 0 } }) >= 1

\* VideoComposer.concatenate_scenes: needs_normalize = len(resolutions) > 1
NeedsNormalize(scene_paths) ==
    Cardinality({ f.res : f \in { g \in Range(scene_paths) :
                                   g.res[1] > 0 /\ g.res[2] > 0 } }) > 1

\* VideoComposer.concatenate_scenes: the list clips_to_concat; norm_fail are
\* the indexes whose _normalize_clip raises (the original is listed instead)
ClipsToConcat(scene_paths, target, norm_fail) ==
    IF NeedsNormalize(scene_paths)
    THEN [k \in 1..Len(scene_paths) |->
            IF k \in norm_fail THEN scene_paths[k]
            ELSE [scene_paths[k] EXCEPT !.res = target, !.normalized = TRUE]]
    ELSE scene_paths

\* VideoComposer.concatenate_scenes: every outcome of one call.  ffmpeg copies
\* the streams, so the output has the resolution of one of the listed files.
ConcatenateScenes(scene_paths, target) ==
    UNION { LET listed == ClipsToConcat(scene_paths, target, nf)
                call == [scene_paths |-> scene_paths, target |-> target,
                         needs_normalize |-> NeedsNormalize(scene_paths),
                         clips_to_concat |-> listed]
            IN  { [call |-> call, raised |-> TRUE, out_res |-> <<0, 0>>] }
                \cup { [call |-> call, raised |-> FALSE, out_res |-> f.res] :
                         f \in Range(listed) }
          : nf \in (IF NeedsNormalize(scene_paths)
                    THEN { x \in SUBSET (1..Len(scene_paths)) :
                             Cardinality(x) <= MaxNormFail }
                    ELSE {{}}) }

\* what ffprobe and the filesystem report about a finished file; a field
\* verify_video never reads (after an early return) is left at TRUE
FileFacts(res) ==
    { f \in [exists : BOOLEAN, size_ok : BOOLEAN, probe_ok : BOOLEAN,
             has_video : BOOLEAN, has_audio : BOOLEAN, dur_ok : BOOLEAN,
             res : {res}] :
        /\ ~f.exists => (f.size_ok /\ f.probe_ok)
        /\ ~f.probe_ok => f.has_video
        /\ ~(f.exists /\ f.probe_ok /\ f.has_video) => (f.has_audio /\ f.dur_ok) }

\* verify_video: the checks in order, with its three early returns
verify_video(f, expected, require_audio) ==
    LET size_f == IF f.size_ok THEN {} ELSE {"File too small"}
        size_c == IF f.size_ok THEN {"file_size"} ELSE {}
        audio_f == IF require_audio /\ ~f.has_audio
                   THEN {"No audio stream found"} ELSE {}
        audio_c == IF ~(require_audio /\ ~f.has_audio) /\ f.has_audio
                   THEN {"has_audio_stream"} ELSE {}
        dur_f == IF f.dur_ok THEN {} ELSE {"Duration mismatch"}
        dur_c == IF f.dur_ok THEN {"duration"} ELSE {}
        res_f == IF f.res # expected THEN {"Resolution mismatch"} ELSE {}
        res_c == IF f.res # expected THEN {} ELSE {"resolution"}
    IN  IF ~f.exists
        THEN [passed |-> FALSE, checks |-> {}, failures |-> {"File not found"},
              actual |-> <<0, 0>>]
        ELSE IF ~f.probe_ok
        THEN [passed |-> FALSE, checks |-> {"file_exists"} \cup size_c,
              failures |-> size_f \cup {"ffprobe failed"}, actual |-> <<0, 0>>]
        ELSE IF ~f.has_video
        THEN [passed |-> FALSE, checks |-> {"file_exists"} \cup size_c,
              failures |-> size_f \cup {"No video stream found"}, actual |-> <<0, 0>>]
        ELSE [passed |-> (size_f \cup audio_f \cup dur_f \cup res_f) = {},
              checks |-> {"file_exists", "has_video_stream"} \cup size_c
                            \cup audio_c \cup dur_c \cup res_c,
              failures |-> size_f \cup audio_f \cup dur_f \cup res_f,
              actual |-> f.res]

\* the fields of the VerificationResult the pipelines read
Verdict(r) == [passed |-> r.passed, failures |-> r.failures, actual |-> r.actual]

\* a variant of NeedsRepair that repairs after any failed verification
NeedsRepairOnAnyFailure(v) ==
    ~v.passed

\* not verification.passed and any("Resolution" in f for f in verification.failures)
NeedsRepair(v) ==
    ~v.passed /\ \E f \in v.failures : f = "Resolution mismatch"

\* a variant of GenerateAttempt whose loop runs one attempt too many
GenerateAttemptOneMore(after) ==
    /\ gen_log' = Append(gen_log, GEN)
    /\ \/ \E r \in Resolutions :
            /\ video_result' = "ok"
            /\ new_clip' = [NoFile EXCEPT !.panel = i, !.res = r]
            /\ gen_ok' = gen_ok \cup {i}
            /\ attempt' = attempt
            /\ pc' = after
       \/ /\ \E vr \in {"nopath", video_result} : video_result' = vr
          /\ UNCHANGED <<new_clip, gen_ok>>
          /\ attempt' = attempt + 1
          /\ pc' = IF attempt + 1 <= max_attempts THEN "attempt" ELSE after

\* the retry loop's call of generate_minimal_motion_clip and what follows it
\* inside the try: a video file breaks the loop, anything else is one more
\* attempt
GenerateAttempt(after) ==
    /\ gen_log' = Append(gen_log, GEN)
    /\ \/ \E r \in Resolutions :
            /\ video_result' = "ok"
            /\ new_clip' = [NoFile EXCEPT !.panel = i, !.res = r]
            /\ gen_ok' = gen_ok \cup {i}
            /\ attempt' = attempt
            /\ pc' = after
       \/ /\ \E vr \in {"nopath", video_result} : video_result' = vr
          /\ UNCHANGED <<new_clip, gen_ok>>
          /\ attempt' = attempt + 1
          /\ pc' = IF attempt + 1 < max_attempts THEN "attempt" ELSE after

\* the locals of the retry loop are dead once the loop is left: they are
\* reassigned before the next read
LoopLocalsDead ==
    /\ attempt' = 0 /\ video_result' = "None" /\ new_clip' = NoFile
    /\ gen_log' = <<>>

\* ---- generate_animated_story_streaming --------------------------------

InitPipeline ==
    /\ mode \in Modes
    /\ panel_paths \in UNION { [1..n -> BOOLEAN] : n \in 0..MaxPanels }
    /\ music_path_exists \in (IF mode = "music" THEN {FALSE} ELSE BOOLEAN)
    /\ enable_captions \in (IF mode = "plain" THEN {FALSE} ELSE BOOLEAN)
    /\ dialogues \in (IF mode = "dialogue"
                       THEN { d \in [1..NumPanels -> BOOLEAN] :
                                Cardinality({ k \in 1..NumPanels : d[k] })
                                   <= MaxDialogueLines }
                       ELSE { [k \in 1..NumPanels |-> FALSE] })
    /\ tts_ok = FALSE /\ audio_results = <<>> /\ aligned_captions = <<>>
    /\ final_clips = <<>>
    /\ pc = "start" /\ i = 0 /\ attempt = 0 /\ video_result = "None"
    /\ new_clip = NoFile
    /\ gen_log = <<>> /\ clips = <<>> /\ clips_failed = 0 /\ gen_ok = {}
    /\ lastEvent = "none" /\ terminalCount = 0 /\ complete_data = [type |-> "none"]
    /\ last_concat = NoCall /\ concat_count = 0 /\ final_path = NoVideo
    /\ verify_calls = 0 /\ verification = NoVerification
    /\ wrapper_raised = FALSE
    /\ vpc = "none" /\ video_task = "none" /\ music_task = "none"
    /\ music_result = FALSE /\ pending = {} /\ to_handle = {}
    /\ finish_order = <<>>

\* if not panels: error; else the 'start' event
PlainStart ==
    /\ mode = "plain" /\ pc = "start"
    /\ IF NumPanels = 0
       THEN Emit("error_no_panels") /\ pc' = "error_yielded"
       ELSE Emit("start") /\ pc' = "collect"
    /\ UNCHANGED <<others, inputs, loopv, clipv, complete_data, composev, wrapper_raised, taskv, dlgv>>

\* Step 1: collect panel paths; valid_count == 0 is an error
PlainCollect ==
    /\ mode = "plain" /\ pc = "collect"
    /\ IF \A k \in 1..NumPanels : ~panel_paths[k]
       THEN Emit("error_no_images") /\ pc' = "error_yielded"
            /\ UNCHANGED <<i, clips, clips_failed>>
       ELSE /\ clips' = <<>> /\ clips_failed' = 0 /\ i' = 1
            /\ pc' = "clip_loop"
            /\ UNCHANGED <<lastEvent, terminalCount>>
    /\ UNCHANGED <<others, inputs, attempt, video_result, new_clip, gen_log, gen_ok,
                   complete_data, composev, wrapper_raised, taskv, dlgv>>

\* for i, panel in enumerate(panels): the 'Animating panel' event, or the
\* end of the loop and the 'compose' event
PlainClipLoop ==
    /\ mode = "plain" /\ pc = "clip_loop"
    /\ IF i <= NumPanels
       THEN Emit("video_progress") /\ pc' = "clip_body"
       ELSE Emit("compose") /\ pc' = "check_clips"
    /\ UNCHANGED <<others, inputs, loopv, clipv, complete_data, composev, wrapper_raised, taskv, dlgv>>

\* if not panel_path: clips_failed += 1; continue.  Else enter the retry loop
PlainClipBody ==
    /\ mode = "plain" /\ pc = "clip_body"
    /\ IF ~panel_paths[i]
       THEN /\ clips_failed' = clips_failed + 1
            /\ i' = i + 1
            /\ pc' = "clip_loop"
            /\ UNCHANGED <<attempt, video_result, gen_log>>
       ELSE /\ attempt' = 0 /\ video_result' = "None" /\ gen_log' = <<>>
            /\ pc' = "attempt"
            /\ UNCHANGED <<i, clips_failed>>
    /\ UNCHANGED <<others, inputs, new_clip, clips, gen_ok, eventv, composev, wrapper_raised, taskv, dlgv>>

\* for attempt in range(max_attempts): if attempt > 0, the 'Retrying' event
PlainAttempt ==
    /\ mode = "plain" /\ pc = "attempt"
    /\ IF attempt > 0
       THEN Emit("video_progress") /\ pc' = "retry_sleep"
       ELSE pc' = "generate" /\ UNCHANGED <<lastEvent, terminalCount>>
    /\ UNCHANGED <<others, inputs, loopv, clipv, complete_data, composev, wrapper_raised, taskv, dlgv>>

\* await asyncio.sleep(2)
PlainRetrySleep ==
    /\ mode = "plain" /\ pc = "retry_sleep"
    /\ gen_log' = Append(gen_log, SLEEP(RETRY_SLEEP_SECONDS))
    /\ pc' = "generate"
    /\ UNCHANGED <<others, inputs, i, attempt, video_result, new_clip, clipv, eventv,
                   composev, wrapper_raised, taskv, dlgv>>

\* video_result = await self.video.generate_minimal_motion_clip(...)
PlainGenerate ==
    /\ mode = "plain" /\ pc = "generate"
    /\ GenerateAttempt("after_attempts")
    /\ UNCHANGED <<others, inputs, i, clips, clips_failed, eventv, composev, wrapper_raised, taskv, dlgv>>

\* after the retry loop: a failed clip is counted and skipped, a video is
\* appended to clips and reported
PlainAfterAttempts ==
    /\ mode = "plain" /\ pc = "after_attempts"
    /\ IF video_result \in {"None", "nopath"}
       THEN /\ clips_failed' = clips_failed + 1
            /\ UNCHANGED <<clips, lastEvent, terminalCount>>
       ELSE /\ clips' = Append(clips, new_clip)
            /\ Emit("video_progress")
            /\ UNCHANGED clips_failed
    /\ i' = i + 1
    /\ pc' = "clip_loop"
    /\ LoopLocalsDead
    /\ UNCHANGED <<others, inputs, gen_ok, complete_data, composev, wrapper_raised, taskv, dlgv>>

\* a variant of PlainCheckClips without the check for an empty clip list
PlainCheckClipsMissing ==
    /\ mode = "plain" /\ pc = "check_clips"
    /\ pc' = "concat" /\ UNCHANGED <<lastEvent, terminalCount>>
    /\ UNCHANGED <<others, inputs, loopv, clipv, complete_data, composev, wrapper_raised, taskv, dlgv>>

\* if not clips: the 'No video clips generated successfully' error
PlainCheckClips ==
    /\ mode = "plain" /\ pc = "check_clips"
    /\ IF clips = <<>>
       THEN Emit("error_no_clips") /\ pc' = "error_yielded"
       ELSE pc' = "concat" /\ UNCHANGED <<lastEvent, terminalCount>>
    /\ UNCHANGED <<others, inputs, loopv, clipv, complete_data, composev, wrapper_raised, taskv, dlgv>>

\* final_path = await self.composer.concatenate_scenes(clip_paths, ...)
PlainConcat ==
    /\ mode = "plain" /\ pc = "concat"
    /\ \E o \in ConcatenateScenes(clips, EXPECTED_RES) :
          /\ last_concat' = o.call /\ concat_count' = concat_count + 1
          /\ IF o.raised
             THEN Emit("error_composition") /\ pc' = "error_yielded"
                  /\ UNCHANGED final_path
             ELSE /\ final_path' = [res |-> o.out_res, steps |-> {}]
                  /\ pc' = IF music_path_exists THEN "music_mix" ELSE "verify"
                  /\ UNCHANGED <<lastEvent, terminalCount>>
    /\ UNCHANGED <<others, inputs, loopv, clipv, complete_data, verify_calls, verification,
                   wrapper_raised, taskv, dlgv>>

\* final_path = await self.composer.compose_video_with_music(...)
PlainMusicMix ==
    /\ mode = "plain" /\ pc = "music_mix"
    /\ \/ /\ final_path' = [final_path EXCEPT !.steps = @ \cup {"music"}]
          /\ pc' = "verify"
          /\ UNCHANGED <<lastEvent, terminalCount>>
       \/ /\ Emit("error_composition") /\ pc' = "error_yielded"
          /\ UNCHANGED final_path
    /\ UNCHANGED <<others, inputs, loopv, clipv, complete_data, last_concat, concat_count, verify_calls,
                   verification, wrapper_raised, taskv, dlgv>>

\* the 'complete' event, which follows the last verify_video without a
\* suspension in between
PlainComplete(v) ==
    /\ Emit("complete")
    /\ complete_data' =
          [type |-> "complete",
           total_duration |-> Len(clips) * clip_duration,
           clip_count |-> Len(clips),
           clips_attempted |-> NumPanels,
           clips_failed |-> clips_failed,
           verified |-> v.passed,
           verification_failures |->
               IF ~v.passed THEN v.failures ELSE {}]
    /\ pc' = "done"

\* verification = verify_video(final_path, ...) and the repair condition
PlainVerify ==
    /\ mode = "plain" /\ pc = "verify"
    /\ \E f \in FileFacts(final_path.res) :
          LET v == Verdict(verify_video(f, EXPECTED_RES, FALSE))
          IN  /\ verification' = v
              /\ IF NeedsRepair(v)
                 THEN pc' = "repair" /\ UNCHANGED eventv
                 ELSE PlainComplete(v)
    /\ verify_calls' = verify_calls + 1
    /\ UNCHANGED <<others, inputs, loopv, clipv, last_concat, concat_count, final_path,
                   wrapper_raised, taskv, dlgv>>

\* the auto-retry: concatenate_scenes again with target 1080x1920.  The first
\* verification is not read again: it is reassigned by the second verify_video
PlainRepair ==
    /\ mode = "plain" /\ pc = "repair"
    /\ verification' = NoVerification
    /\ \E o \in ConcatenateScenes(clips, EXPECTED_RES) :
          /\ last_concat' = o.call /\ concat_count' = concat_count + 1
          /\ IF o.raised
             THEN Emit("error_composition") /\ pc' = "error_yielded"
                  /\ UNCHANGED final_path
             ELSE /\ final_path' = [res |-> o.out_res, steps |-> {}]
                  /\ pc' = "reverify"
                  /\ UNCHANGED <<lastEvent, terminalCount>>
    /\ UNCHANGED <<others, inputs, loopv, clipv, complete_data, verify_calls,
                   wrapper_raised, taskv, dlgv>>

\* the second verify_video of the auto-retry
PlainReverify ==
    /\ mode = "plain" /\ pc = "reverify"
    /\ \E f \in FileFacts(final_path.res) :
          LET v == Verdict(verify_video(f, EXPECTED_RES, FALSE))
          IN  verification' = v /\ PlainComplete(v)
    /\ verify_calls' = verify_calls + 1
    /\ UNCHANGED <<others, inputs, loopv, clipv, last_concat, concat_count, final_path,
                   wrapper_raised, taskv, dlgv>>

\* ---- generate_animated_story_with_music_streaming --------------------

\* if not panels: error; else the 'start' event
MusicStart ==
    /\ mode = "music" /\ pc = "start"
    /\ IF NumPanels = 0
       THEN Emit("error_no_panels") /\ pc' = "error_yielded"
       ELSE Emit("start") /\ pc' = "lyrics"
    /\ UNCHANGED <<others, inputs, loopv, clipv, complete_data, composev, wrapper_raised, taskv, dlgv>>

\* Step 1: custom tags and lyrics are used as given; otherwise the
\* 'Generating song lyrics' event precedes the planner call
MusicLyrics ==
    /\ mode = "music" /\ pc = "lyrics"
    /\ \/ pc' = "collect" /\ UNCHANGED <<lastEvent, terminalCount>>
       \/ Emit("lyrics_progress") /\ pc' = "lyrics_call"
    /\ UNCHANGED <<others, inputs, loopv, clipv, complete_data, composev, wrapper_raised, taskv, dlgv>>

\* planner.generate_lyrics_and_tags(...): a failure falls back to the built-in
\* lyrics; either way the 'Lyrics ready' event follows
MusicLyricsCall ==
    /\ mode = "music" /\ pc = "lyrics_call"
    /\ Emit("lyrics_progress")
    /\ pc' = "collect"
    /\ UNCHANGED <<others, inputs, loopv, clipv, complete_data, composev, wrapper_raised, taskv, dlgv>>

\* Step 2: collect panel paths; valid_count == 0 is an error.  Step 3 opens
\* with the 'Starting parallel generation' event
MusicCollect ==
    /\ mode = "music" /\ pc = "collect"
    /\ IF \A k \in 1..NumPanels : ~panel_paths[k]
       THEN Emit("error_no_images") /\ pc' = "error_yielded"
       ELSE Emit("video_progress") /\ pc' = "announce_music"
    /\ UNCHANGED <<others, inputs, loopv, clipv, complete_data, composev, wrapper_raised, taskv, dlgv>>

\* the 'Starting music generation' event
MusicAnnounce ==
    /\ mode = "music" /\ pc = "announce_music"
    /\ Emit("music_progress")
    /\ pc' = "launch"
    /\ UNCHANGED <<others, inputs, loopv, clipv, complete_data, composev, wrapper_raised, taskv, dlgv>>

\* video_task = asyncio.create_task(...); music_task = asyncio.create_task(...);
\* pending = {video_task, music_task}
MusicLaunch ==
    /\ mode = "music" /\ pc = "launch"
    /\ video_task' = "running" /\ vpc' = "clip_loop"
    /\ music_task' = "running"
    /\ music_result' = FALSE
    /\ pending' = {"video", "music"} /\ to_handle' = {}
    /\ finish_order' = <<>>
    /\ clips' = <<>> /\ i' = 1
    /\ pc' = "wait"
    /\ UNCHANGED <<others, inputs, attempt, video_result, new_clip, gen_log, clips_failed,
                   gen_ok, eventv, composev, wrapper_raised, dlgv>>

\* _generate_all_clips: for i, panel in enumerate(panels); a panel without an
\* image is appended as (None, clip_duration); return clips after the loop
TaskClipLoop ==
    /\ mode = "music" /\ video_task = "running" /\ vpc = "clip_loop"
    /\ IF i > NumPanels
       THEN /\ video_task' = "returned" /\ vpc' = "none"
            /\ finish_order' = Append(finish_order, "video")
            /\ UNCHANGED <<i, attempt, video_result, gen_log, clips>>
       ELSE IF ~panel_paths[i]
       THEN /\ clips' = Append(clips, NoFile)
            /\ i' = i + 1
            /\ UNCHANGED <<vpc, video_task, attempt, video_result, gen_log,
                           finish_order>>
       ELSE /\ attempt' = 0 /\ video_result' = "None" /\ gen_log' = <<>>
            /\ vpc' = "attempt"
            /\ UNCHANGED <<i, clips, video_task, finish_order>>
    /\ UNCHANGED <<others, inputs, pc, new_clip, clips_failed, gen_ok, eventv, composev,
                   wrapper_raised, music_task, music_result, pending, to_handle, dlgv>>

\* _generate_all_clips: if attempt > 0: await asyncio.sleep(2)
TaskRetrySleep ==
    /\ mode = "music" /\ video_task = "running" /\ vpc = "attempt"
    /\ IF attempt > 0
       THEN gen_log' = Append(gen_log, SLEEP(RETRY_SLEEP_SECONDS))
       ELSE UNCHANGED gen_log
    /\ vpc' = "generate"
    /\ UNCHANGED <<others, inputs, pc, i, attempt, video_result, new_clip, clipv, eventv,
                   composev, wrapper_raised, video_task, music_task, music_result,
                   pending, to_handle, finish_order,
                   dlgv>>

\* the call of generate_minimal_motion_clip by the video task: GenerateAttempt
\* with the task's position in place of the generator's
TaskGenerateAttempt ==
    /\ gen_log' = Append(gen_log, GEN)
    /\ \/ \E r \in Resolutions :
            /\ video_result' = "ok"
            /\ new_clip' = [NoFile EXCEPT !.panel = i, !.res = r]
            /\ gen_ok' = gen_ok \cup {i}
            /\ attempt' = attempt
            /\ vpc' = "after_attempts"
       \/ /\ \E vr \in {"nopath", video_result} : video_result' = vr
          /\ UNCHANGED <<new_clip, gen_ok>>
          /\ attempt' = attempt + 1
          /\ vpc' = IF attempt + 1 < max_attempts THEN "attempt" ELSE "after_attempts"

\* _generate_all_clips: video_result = await self.video.generate_minimal_motion_clip(...)
TaskGenerate ==
    /\ mode = "music" /\ video_task = "running" /\ vpc = "generate"
    /\ TaskGenerateAttempt
    /\ UNCHANGED <<others, inputs, pc, i, clips, clips_failed, eventv, composev,
                   wrapper_raised, video_task, music_task, music_result, pending,
                   to_handle, finish_order,
                   dlgv>>

\* _generate_all_clips: after the retry loop the clip or (None, clip_duration)
\* is appended
TaskAfterAttempts ==
    /\ mode = "music" /\ video_task = "running" /\ vpc = "after_attempts"
    /\ IF video_result = "ok"
       THEN clips' = Append(clips, new_clip)
       ELSE clips' = Append(clips, NoFile)
    /\ i' = i + 1
    /\ vpc' = "clip_loop"
    /\ LoopLocalsDead
    /\ UNCHANGED <<others, inputs, pc, clips_failed, gen_ok, eventv, composev,
                   wrapper_raised, video_task, music_task, music_result, pending,
                   to_handle, finish_order,
                   dlgv>>

\* the video task ends with an exception that no retry loop caught
TaskRaises ==
    /\ mode = "music" /\ video_task = "running" /\ vpc = "clip_loop"
    /\ video_task' = "raised" /\ vpc' = "none"
    /\ finish_order' = Append(finish_order, "video")
    /\ UNCHANGED <<others, inputs, pc, loopv, clipv, eventv, composev, wrapper_raised,
                   music_task, music_result, pending, to_handle, dlgv>>

\* _generate_music_task: generate_music returns a result or raises
MusicTaskFinishes ==
    /\ mode = "music" /\ music_task = "running"
    /\ \E r \in {"returned", "raised"} : music_task' = r
    /\ finish_order' = Append(finish_order, "music")
    /\ UNCHANGED <<others, inputs, pc, loopv, clipv, eventv, composev, wrapper_raised,
                   vpc, video_task, music_result, pending, to_handle, dlgv>>

Finished(t) ==
    IF t = "video" THEN video_task \in {"returned", "raised"}
    ELSE music_task \in {"returned", "raised", "cancelled"}

\* done, pending = await asyncio.wait(pending, return_when=FIRST_COMPLETED)
MusicWait ==
    /\ mode = "music" /\ pc = "wait"
    /\ \E t \in pending : Finished(t)
    /\ to_handle' = { t \in pending : Finished(t) }
    /\ pending' = { t \in pending : ~Finished(t) }
    /\ pc' = "handle"
    /\ UNCHANGED <<others, inputs, loopv, clipv, eventv, composev, wrapper_raised, vpc,
                   video_task, music_task, music_result, finish_order,
                   dlgv>>

\* a variant of MusicHandle in which an exception of the music task ends the
\* run with an error, as an exception of the video task does
MusicHandleMusicFatal ==
    /\ mode = "music" /\ pc = "handle"
    /\ \E t \in to_handle :
          /\ to_handle' = to_handle \ {t}
          /\ finish_order' = SelectSeq(finish_order, LAMBDA u : u # t)
          /\ IF (t = "video" /\ video_task = "raised")
                \/ (t = "music" /\ music_task = "raised")
             THEN /\ Emit("error_video_failed")
                  /\ pc' = "video_error_yielded"
                  /\ UNCHANGED music_result
             ELSE /\ Emit(IF t = "video" THEN "video_progress" ELSE "music_progress")
                  /\ music_result' = IF t = "music" THEN music_task = "returned"
                                     ELSE music_result
                  /\ pc' = IF to_handle' # {} THEN "handle"
                           ELSE IF pending # {} THEN "wait" ELSE "compose_start"
    /\ UNCHANGED <<others, inputs, loopv, clipv, complete_data, composev, wrapper_raised,
                   vpc, video_task, music_task, pending, dlgv>>

\* a variant of MusicHandle whose loop ends with the first set of finished
\* tasks instead of running while pending
MusicHandleOneRound ==
    /\ mode = "music" /\ pc = "handle"
    /\ \E t \in to_handle :
          /\ to_handle' = to_handle \ {t}
          /\ finish_order' = SelectSeq(finish_order, LAMBDA u : u # t)
          /\ IF t = "video" /\ video_task = "raised"
             THEN /\ Emit("error_video_failed")
                  /\ pc' = "video_error_yielded"
                  /\ UNCHANGED music_result
             ELSE /\ Emit(IF t = "video" THEN "video_progress" ELSE "music_progress")
                  /\ music_result' = IF t = "music" THEN music_task = "returned"
                                     ELSE music_result
                  /\ pc' = IF to_handle' # {} THEN "handle" ELSE "compose_start"
    /\ UNCHANGED <<others, inputs, loopv, clipv, complete_data, composev, wrapper_raised,
                   vpc, video_task, music_task, pending, dlgv>>

\* for task in done: the result of the video task or of the music task is
\* taken and reported; an exception of the video task is the 'Video
\* generation failed' error
MusicHandle ==
    /\ mode = "music" /\ pc = "handle"
    /\ \E t \in to_handle :
          /\ to_handle' = to_handle \ {t}
          /\ finish_order' = SelectSeq(finish_order, LAMBDA u : u # t)
          /\ IF t = "video" /\ video_task = "raised"
             THEN /\ Emit("error_video_failed")
                  /\ pc' = "video_error_yielded"
                  /\ UNCHANGED music_result
             ELSE /\ Emit(IF t = "video" THEN "video_progress" ELSE "music_progress")
                  /\ music_result' = IF t = "music" THEN music_task = "returned"
                                     ELSE music_result
                  /\ pc' = IF to_handle' # {} THEN "handle"
                           ELSE IF pending # {} THEN "wait" ELSE "compose_start"
    /\ UNCHANGED <<others, inputs, loopv, clipv, complete_data, composev, wrapper_raised,
                   vpc, video_task, music_task, pending, dlgv>>

\* the generator is resumed after the 'Video generation failed' error:
\* music_task.cancel(); return
MusicCancelAfterError ==
    /\ mode = "music" /\ pc = "video_error_yielded"
    /\ music_task' = IF music_task = "running" THEN "cancelled" ELSE music_task
    /\ pc' = "done"
    /\ UNCHANGED <<others, inputs, loopv, clipv, eventv, composev, wrapper_raised, vpc,
                   video_task, music_result, pending, to_handle, finish_order,
                   dlgv>>

\* Step 4: the 'Concatenating video clips' event
MusicComposeStart ==
    /\ mode = "music" /\ pc = "compose_start"
    /\ Emit("compose")
    /\ pc' = "check_clips"
    /\ UNCHANGED <<others, inputs, loopv, clipv, complete_data, composev, wrapper_raised, taskv, dlgv>>

\* if not valid_clip_paths: the 'No video clips generated successfully' error
MusicCheckClips ==
    /\ mode = "music" /\ pc = "check_clips"
    /\ IF ValidClips(clips) = <<>>
       THEN Emit("error_no_clips") /\ pc' = "error_yielded"
       ELSE pc' = "concat" /\ UNCHANGED <<lastEvent, terminalCount>>
    /\ UNCHANGED <<others, inputs, loopv, clipv, complete_data, composev, wrapper_raised, taskv, dlgv>>

\* base_video_path = await self.composer.concatenate_scenes(valid_clip_paths, ...);
\* with music, the 'Adding music to video' event follows
MusicConcat ==
    /\ mode = "music" /\ pc = "concat"
    /\ \E o \in ConcatenateScenes(ValidClips(clips), EXPECTED_RES) :
          /\ last_concat' = o.call /\ concat_count' = concat_count + 1
          /\ IF o.raised
             THEN Emit("error_composition") /\ pc' = "error_yielded"
                  /\ UNCHANGED final_path
             ELSE /\ final_path' = [res |-> o.out_res, steps |-> {}]
                  /\ IF music_result
                     THEN Emit("compose") /\ pc' = "add_music"
                     ELSE pc' = "lyrics_captions"
                          /\ UNCHANGED <<lastEvent, terminalCount>>
    /\ UNCHANGED <<others, inputs, loopv, clipv, complete_data, verify_calls, verification,
                   wrapper_raised, taskv, dlgv>>

\* a variant of MusicAddMusic that goes on without muxing the music
MusicAddMusicSkipped ==
    /\ mode = "music" /\ pc = "add_music"
    /\ pc' = "lyrics_captions"
    /\ UNCHANGED <<lastEvent, terminalCount, final_path>>
    /\ UNCHANGED <<others, inputs, loopv, clipv, complete_data, last_concat, concat_count, verify_calls,
                   verification, wrapper_raised, taskv, dlgv>>

\* Step 5: video_with_music = await self.composer.add_audio_to_video(...)
MusicAddMusic ==
    /\ mode = "music" /\ pc = "add_music"
    /\ \/ /\ final_path' = [final_path EXCEPT !.steps = @ \cup {"music"}]
          /\ pc' = "lyrics_captions"
          /\ UNCHANGED <<lastEvent, terminalCount>>
       \/ /\ Emit("error_composition") /\ pc' = "error_yielded"
          /\ UNCHANGED final_path
    /\ UNCHANGED <<others, inputs, loopv, clipv, complete_data, last_concat, concat_count, verify_calls,
                   verification, wrapper_raised, taskv, dlgv>>

\* Step 6: if enable_lyrics and music_result: the 'Preparing panel-locked
\* lyrics captions' event
MusicCaptions ==
    /\ mode = "music" /\ pc = "lyrics_captions"
    /\ IF enable_captions /\ music_result
       THEN Emit("caption_progress") /\ pc' = "lyrics_lines"
       ELSE pc' = "verify" /\ UNCHANGED <<lastEvent, terminalCount>>
    /\ UNCHANGED <<others, inputs, loopv, clipv, complete_data, composev, wrapper_raised, taskv, dlgv>>

\* if lyrics_lines: the 'Rendering rolling lyrics' event
MusicLyricsLines ==
    /\ mode = "music" /\ pc = "lyrics_lines"
    /\ \/ pc' = "verify" /\ UNCHANGED <<lastEvent, terminalCount>>
       \/ Emit("caption_progress") /\ pc' = "render"
    /\ UNCHANGED <<others, inputs, loopv, clipv, complete_data, composev, wrapper_raised, taskv, dlgv>>

\* final_video = await renderer.render_with_captions(video_with_music, ...):
\* the renderer scales to 1080x1920; an exception leaves final_video as it was
MusicRender ==
    /\ mode = "music" /\ pc = "render"
    /\ \/ final_path' = [res |-> EXPECTED_RES, steps |-> final_path.steps \cup {"captions"}]
       \/ UNCHANGED final_path
    /\ pc' = "verify"
    /\ UNCHANGED <<others, inputs, loopv, clipv, eventv, last_concat, concat_count, verify_calls,
                   verification, wrapper_raised, taskv, dlgv>>

\* the 'complete' event, which follows the last verify_video without a
\* suspension in between
MusicComplete(v) ==
    /\ Emit("complete")
    /\ complete_data' =
          [type |-> "complete",
           total_duration |-> Len(clips) * clip_duration,
           clip_count |-> Len(ValidClips(clips)),
           clips_attempted |-> NumPanels,
           clips_failed |-> NumPanels - Len(ValidClips(clips)),
           has_music |-> music_result,
           has_lyrics |-> enable_captions /\ music_result,
           verified |-> v.passed,
           verification_failures |->
               IF ~v.passed THEN v.failures ELSE {}]
    /\ pc' = "done"

\* Step 7: verification = verify_video(final_video, ...,
\* require_audio=music_result is not None) and the repair condition
MusicVerify ==
    /\ mode = "music" /\ pc = "verify"
    /\ \E f \in FileFacts(final_path.res) :
          LET v == Verdict(verify_video(f, EXPECTED_RES, music_result))
          IN  /\ verification' = v
              /\ IF NeedsRepair(v)
                 THEN pc' = "repair" /\ UNCHANGED eventv
                 ELSE MusicComplete(v)
    /\ verify_calls' = verify_calls + 1
    /\ UNCHANGED <<others, inputs, loopv, clipv, last_concat, concat_count, final_path,
                   wrapper_raised, taskv, dlgv>>

\* the auto-retry: concatenate_scenes again with target 1080x1920, then
\* add_audio_to_video again when there is music
MusicRepair ==
    /\ mode = "music" /\ pc = "repair"
    /\ verification' = NoVerification
    /\ \E o \in ConcatenateScenes(ValidClips(clips), EXPECTED_RES), mux_raises \in BOOLEAN :
          /\ last_concat' = o.call /\ concat_count' = concat_count + 1
          /\ IF o.raised \/ (music_result /\ mux_raises)
             THEN Emit("error_composition") /\ pc' = "error_yielded"
                  /\ UNCHANGED final_path
             ELSE /\ final_path' = [res |-> o.out_res,
                                    steps |-> IF music_result THEN {"music"} ELSE {}]
                  /\ pc' = "reverify"
                  /\ UNCHANGED <<lastEvent, terminalCount>>
    /\ UNCHANGED <<others, inputs, loopv, clipv, complete_data, verify_calls,
                   wrapper_raised, taskv, dlgv>>

\* the second verify_video of the auto-retry
MusicReverify ==
    /\ mode = "music" /\ pc = "reverify"
    /\ \E f \in FileFacts(final_path.res) :
          LET v == Verdict(verify_video(f, EXPECTED_RES, music_result))
          IN  verification' = v /\ MusicComplete(v)
    /\ verify_calls' = verify_calls + 1
    /\ UNCHANGED <<others, inputs, loopv, clipv, last_concat, concat_count, final_path,
                   wrapper_raised, taskv, dlgv>>

\* ---- generate_animated_story_with_dialogue_streaming -----------------

\* dialogue_count = sum(1 for d in dialogues if d)
dialogue_count == Cardinality({ k \in 1..NumPanels : dialogues[k] })

\* if not panels: error; else the 'start' event
DialogueStart ==
    /\ mode = "dialogue" /\ pc = "start"
    /\ IF NumPanels = 0
       THEN Emit("error_no_panels") /\ pc' = "error_yielded"
       ELSE Emit("start") /\ pc' = "collect"
    /\ UNCHANGED <<others, inputs, loopv, clipv, complete_data, composev, wrapper_raised, taskv, dlgv>>

\* Step 1: collect panel paths and dialogues; valid_count == 0 is an error.
\* Step 2 opens with the 'Generating dialogue audio' event
DialogueCollect ==
    /\ mode = "dialogue" /\ pc = "collect"
    /\ IF \A k \in 1..NumPanels : ~panel_paths[k]
       THEN Emit("error_no_images") /\ pc' = "error_yielded"
       ELSE Emit("tts_progress") /\ pc' = "tts"
    /\ UNCHANGED <<others, inputs, loopv, clipv, complete_data, composev, wrapper_raised, taskv, dlgv>>

\* Step 4 starts: clips = []; clips_failed = 0
StartClipLoop ==
    /\ clips' = <<>> /\ clips_failed' = 0 /\ i' = 1

\* tts_results = await tts.generate_dialogue(...): the batch returns one result
\* per line or raises (then every line is None).  Without any dialogue every
\* panel gets (None, 0.0, None)
DialogueTTS ==
    /\ mode = "dialogue" /\ pc = "tts"
    /\ IF dialogue_count > 0
       THEN /\ tts_ok' \in BOOLEAN
            /\ audio_results' = <<>>
            /\ i' = 1
            /\ pc' = "tts_report"
       ELSE /\ audio_results' = [k \in 1..NumPanels |-> FALSE]
            /\ pc' = "align"
            /\ UNCHANGED <<tts_ok, i>>
    /\ UNCHANGED <<others, inputs, attempt, video_result, new_clip, gen_log, clipv,
                   eventv, composev, wrapper_raised, taskv, aligned_captions,
                   final_clips>>

\* tts = self._get_tts(mode=tts_mode), outside every try: QwenTTS(...) raises
\* ValueError in cloud mode without FAL_KEY, and the generator ends by the
\* exception, which reaches its caller
DialogueGetTtsRaises ==
    /\ mode = "dialogue" /\ pc = "tts"
    /\ pc' = "raised"
    /\ UNCHANGED <<others, inputs, loopv, clipv, eventv, composev, wrapper_raised,
                   taskv, dlgv>>

\* for i, dialogue in enumerate(dialogues): audio_results.append(...) and the
\* 'tts_progress' event of the panel
DialogueTTSReport ==
    /\ mode = "dialogue" /\ pc = "tts_report"
    /\ audio_results' = Append(audio_results, dialogues[i] /\ tts_ok)
    /\ Emit("tts_progress")
    /\ IF i < NumPanels
       THEN i' = i + 1 /\ pc' = "tts_report" /\ UNCHANGED tts_ok
       ELSE i' = i /\ pc' = "align" /\ tts_ok' = FALSE
    /\ UNCHANGED <<others, inputs, attempt, video_result, new_clip, gen_log, clipv,
                   complete_data, composev, wrapper_raised, taskv, aligned_captions,
                   final_clips>>

\* Step 3: if enable_captions: the 'Aligning dialogue' event
DialogueAlign ==
    /\ mode = "dialogue" /\ pc = "align"
    /\ IF enable_captions
       THEN /\ Emit("align_progress") /\ pc' = "align_all"
            /\ UNCHANGED <<i, clips, clips_failed>>
       ELSE /\ StartClipLoop /\ pc' = "clip_loop"
            /\ UNCHANGED <<lastEvent, terminalCount>>
    /\ UNCHANGED <<others, inputs, attempt, video_result, new_clip, gen_log, gen_ok,
                   complete_data, composev, wrapper_raised, taskv, dlgv>>

\* the aligner loop: a panel with audio and dialogue gets its captions, or
\* an empty list when align_audio raises or returns nothing; every other
\* panel gets ([], "")
DialogueAlignAll ==
    /\ mode = "dialogue" /\ pc = "align_all"
    /\ \E a \in [1..NumPanels -> BOOLEAN] :
          /\ \A k \in 1..NumPanels : a[k] => (audio_results[k] /\ dialogues[k])
          /\ aligned_captions' = a
    /\ StartClipLoop
    /\ pc' = "clip_loop"
    /\ UNCHANGED <<others, inputs, attempt, video_result, new_clip, gen_log, gen_ok,
                   eventv, composev, wrapper_raised, taskv, tts_ok, audio_results,
                   final_clips>>

\* for i, panel in enumerate(panels): the 'Animating panel' event, or the
\* end of the loop and the 'Merging audio with video clips' event
DialogueClipLoop ==
    /\ mode = "dialogue" /\ pc = "clip_loop"
    /\ IF i <= NumPanels
       THEN Emit("video_progress") /\ pc' = "clip_body"
       ELSE Emit("compose") /\ pc' = "merge"
    /\ UNCHANGED <<others, inputs, loopv, clipv, complete_data, composev, wrapper_raised, taskv, dlgv>>

\* a variant of DialogueClipBody that skips a panel without an image, as the
\* plain pipeline does, instead of appending (None, clip_duration)
DialogueClipBodySkipping ==
    /\ mode = "dialogue" /\ pc = "clip_body"
    /\ IF ~panel_paths[i]
       THEN /\ clips_failed' = clips_failed + 1
            /\ i' = i + 1
            /\ pc' = "clip_loop"
            /\ UNCHANGED <<attempt, video_result, gen_log, clips>>
       ELSE /\ attempt' = 0 /\ video_result' = "None" /\ gen_log' = <<>>
            /\ pc' = "attempt"
            /\ UNCHANGED <<i, clips, clips_failed>>
    /\ UNCHANGED <<others, inputs, new_clip, gen_ok, eventv, composev, wrapper_raised, taskv, dlgv>>

\* if not panel_path: clips_failed += 1; clips.append((None, clip_duration))
DialogueClipBody ==
    /\ mode = "dialogue" /\ pc = "clip_body"
    /\ IF ~panel_paths[i]
       THEN /\ clips_failed' = clips_failed + 1
            /\ clips' = Append(clips, NoFile)
            /\ i' = i + 1
            /\ pc' = "clip_loop"
            /\ UNCHANGED <<attempt, video_result, gen_log>>
       ELSE /\ attempt' = 0 /\ video_result' = "None" /\ gen_log' = <<>>
            /\ pc' = "attempt"
            /\ UNCHANGED <<i, clips, clips_failed>>
    /\ UNCHANGED <<others, inputs, new_clip, gen_ok, eventv, composev, wrapper_raised, taskv, dlgv>>

\* if attempt > 0: await asyncio.sleep(2)
DialogueRetrySleep ==
    /\ mode = "dialogue" /\ pc = "attempt"
    /\ IF attempt > 0
       THEN gen_log' = Append(gen_log, SLEEP(RETRY_SLEEP_SECONDS))
       ELSE UNCHANGED gen_log
    /\ pc' = "generate"
    /\ UNCHANGED <<others, inputs, i, attempt, video_result, new_clip, clipv, eventv,
                   composev, wrapper_raised, taskv, dlgv>>

\* video_result = await self.video.generate_minimal_motion_clip(...)
DialogueGenerate ==
    /\ mode = "dialogue" /\ pc = "generate"
    /\ GenerateAttempt("after_attempts")
    /\ UNCHANGED <<others, inputs, i, clips, clips_failed, eventv, composev,
                   wrapper_raised, taskv, dlgv>>

\* after the retry loop: a failed clip is counted and appended as
\* (None, clip_duration); a video is appended and reported
DialogueAfterAttempts ==
    /\ mode = "dialogue" /\ pc = "after_attempts"
    /\ IF video_result \in {"None", "nopath"}
       THEN /\ clips_failed' = clips_failed + 1
            /\ clips' = Append(clips, NoFile)
            /\ UNCHANGED <<lastEvent, terminalCount>>
       ELSE /\ clips' = Append(clips, new_clip)
            /\ Emit("video_progress")
            /\ UNCHANGED clips_failed
    /\ i' = i + 1
    /\ pc' = "clip_loop"
    /\ LoopLocalsDead
    /\ UNCHANGED <<others, inputs, gen_ok, complete_data, composev, wrapper_raised, taskv, dlgv>>

\* Step 5: per clip, add_audio_to_clip when there is audio; a merge error
\* keeps the silent video; a missing video stays None
DialogueMerge ==
    /\ mode = "dialogue" /\ pc = "merge"
    /\ \E merge_fails \in SUBSET { k \in 1..NumPanels :
                                    clips[k] # NoFile /\ audio_results[k] } :
          final_clips' = [k \in 1..NumPanels |->
              IF clips[k] # NoFile /\ audio_results[k] /\ k \notin merge_fails
              THEN [clips[k] EXCEPT !.audio = TRUE]
              ELSE clips[k]]
    /\ pc' = IF enable_captions /\ aligned_captions # <<>>
             THEN "captions" ELSE "concat_start"
    /\ UNCHANGED <<others, inputs, loopv, clipv, eventv, composev, wrapper_raised, taskv,
                   tts_ok, audio_results, aligned_captions>>

\* Step 6: the 'Rendering karaoke captions' event
DialogueCaptions ==
    /\ mode = "dialogue" /\ pc = "captions"
    /\ Emit("caption_progress")
    /\ pc' = "render_all"
    /\ UNCHANGED <<others, inputs, loopv, clipv, complete_data, composev, wrapper_raised, taskv, dlgv>>

\* the render loop: a clip with captions is rendered (scaled to 1080x1920) or,
\* when render_with_captions raises, kept as it is; when the renderer cannot
\* be loaded final_clips stays merged_clips
DialogueRenderAll ==
    /\ mode = "dialogue" /\ pc = "render_all"
    /\ \/ UNCHANGED final_clips
       \/ \E render_fails \in SUBSET { k \in 1..NumPanels :
                                        final_clips[k] # NoFile /\ aligned_captions[k] } :
            final_clips' = [k \in 1..NumPanels |->
                IF final_clips[k] # NoFile /\ aligned_captions[k]
                   /\ k \notin render_fails
                THEN [final_clips[k] EXCEPT !.captioned = TRUE, !.res = EXPECTED_RES]
                ELSE final_clips[k]]
    /\ pc' = "concat_start"
    /\ UNCHANGED <<others, inputs, loopv, clipv, eventv, composev, wrapper_raised, taskv,
                   tts_ok, audio_results, aligned_captions>>

\* Step 7: the 'Concatenating final video' event
DialogueConcatStart ==
    /\ mode = "dialogue" /\ pc = "concat_start"
    /\ Emit("compose")
    /\ pc' = "check_clips"
    /\ UNCHANGED <<others, inputs, loopv, clipv, complete_data, composev, wrapper_raised, taskv, dlgv>>

\* valid_clips = [c for c in final_clips if c is not None]; if not valid_clips:
\* the 'No video clips generated successfully' error
DialogueCheckClips ==
    /\ mode = "dialogue" /\ pc = "check_clips"
    /\ IF ValidClips(final_clips) = <<>>
       THEN Emit("error_no_clips") /\ pc' = "error_yielded"
       ELSE pc' = "concat" /\ UNCHANGED <<lastEvent, terminalCount>>
    /\ UNCHANGED <<others, inputs, loopv, clipv, complete_data, composev, wrapper_raised, taskv, dlgv>>

\* final_path = await self.composer.concatenate_scenes(valid_clips, ...)
DialogueConcat ==
    /\ mode = "dialogue" /\ pc = "concat"
    /\ \E o \in ConcatenateScenes(ValidClips(final_clips), EXPECTED_RES) :
          /\ last_concat' = o.call /\ concat_count' = concat_count + 1
          /\ IF o.raised
             THEN Emit("error_composition") /\ pc' = "error_yielded"
                  /\ UNCHANGED final_path
             ELSE /\ final_path' = [res |-> o.out_res, steps |-> {}]
                  /\ pc' = IF music_path_exists THEN "music_mix" ELSE "verify"
                  /\ UNCHANGED <<lastEvent, terminalCount>>
    /\ UNCHANGED <<others, inputs, loopv, clipv, complete_data, verify_calls, verification,
                   wrapper_raised, taskv, dlgv>>

\* final_path = await self.composer.compose_video_with_music(...)
DialogueMusicMix ==
    /\ mode = "dialogue" /\ pc = "music_mix"
    /\ \/ /\ final_path' = [final_path EXCEPT !.steps = @ \cup {"music"}]
          /\ pc' = "verify"
          /\ UNCHANGED <<lastEvent, terminalCount>>
       \/ /\ Emit("error_composition") /\ pc' = "error_yielded"
          /\ UNCHANGED final_path
    /\ UNCHANGED <<others, inputs, loopv, clipv, complete_data, last_concat, concat_count, verify_calls,
                   verification, wrapper_raised, taskv, dlgv>>

\* a variant of DialogueComplete that counts the failed clips' None entries
DialogueCompleteCountsNone(v) ==
    /\ Emit("complete")
    /\ complete_data' =
          [type |-> "complete",
           total_duration |-> Len(clips) * clip_duration,
           clip_count |-> Len(final_clips),
           clips_attempted |-> NumPanels,
           clips_failed |-> clips_failed,
           has_captions |-> enable_captions /\ aligned_captions # <<>>,
           verified |-> v.passed,
           verification_failures |->
               IF ~v.passed THEN v.failures ELSE {}]
    /\ pc' = "done"

\* the 'complete' event, which follows the last verify_video without a
\* suspension in between
DialogueComplete(v) ==
    /\ Emit("complete")
    /\ complete_data' =
          [type |-> "complete",
           total_duration |-> Len(clips) * clip_duration,
           clip_count |-> Len(ValidClips(final_clips)),
           clips_attempted |-> NumPanels,
           clips_failed |-> clips_failed,
           has_captions |-> enable_captions /\ aligned_captions # <<>>,
           verified |-> v.passed,
           verification_failures |->
               IF ~v.passed THEN v.failures ELSE {}]
    /\ pc' = "done"

\* verification = verify_video(final_path, ..., require_audio=dialogue_count > 0)
\* and the repair condition
DialogueVerify ==
    /\ mode = "dialogue" /\ pc = "verify"
    /\ \E f \in FileFacts(final_path.res) :
          LET v == Verdict(verify_video(f, EXPECTED_RES, dialogue_count > 0))
          IN  /\ verification' = v
              /\ IF NeedsRepair(v)
                 THEN pc' = "repair" /\ UNCHANGED eventv
                 ELSE DialogueComplete(v)
    /\ verify_calls' = verify_calls + 1
    /\ UNCHANGED <<others, inputs, loopv, clipv, last_concat, concat_count, final_path,
                   wrapper_raised, taskv, dlgv>>

\* the auto-retry: concatenate_scenes again with target 1080x1920, then
\* compose_video_with_music again when there is a music file
DialogueRepair ==
    /\ mode = "dialogue" /\ pc = "repair"
    /\ verification' = NoVerification
    /\ \E o \in ConcatenateScenes(ValidClips(final_clips), EXPECTED_RES),
          mix_raises \in BOOLEAN :
          /\ last_concat' = o.call /\ concat_count' = concat_count + 1
          /\ IF o.raised \/ (music_path_exists /\ mix_raises)
             THEN Emit("error_composition") /\ pc' = "error_yielded"
                  /\ UNCHANGED final_path
             ELSE /\ final_path' = [res |-> o.out_res,
                                    steps |-> IF music_path_exists THEN {"music"} ELSE {}]
                  /\ pc' = "reverify"
                  /\ UNCHANGED <<lastEvent, terminalCount>>
    /\ UNCHANGED <<others, inputs, loopv, clipv, complete_data, verify_calls,
                   wrapper_raised, taskv, dlgv>>

\* the second verify_video of the auto-retry
DialogueReverify ==
    /\ mode = "dialogue" /\ pc = "reverify"
    /\ \E f \in FileFacts(final_path.res) :
          LET v == Verdict(verify_video(f, EXPECTED_RES, dialogue_count > 0))
          IN  verification' = v /\ DialogueComplete(v)
    /\ verify_calls' = verify_calls + 1
    /\ UNCHANGED <<others, inputs, loopv, clipv, last_concat, concat_count, final_path,
                   wrapper_raised, taskv, dlgv>>

\* ---- the consumer of the event stream ----------------------------------

\* The caller is either a consumer of the stream or one of the non-streaming
\* wrappers; the two iterate the generator alike until an 'error' event, so
\* which one it is is decided there.

\* the consumer asks for the next event after an 'error': the generator returns
ReturnAfterError ==
    /\ pc = "error_yielded"
    /\ pc' = "done"
    /\ UNCHANGED <<others, inputs, loopv, clipv, eventv, composev, wrapper_raised, taskv, dlgv>>

\* the non-streaming wrappers: elif event.type == 'error': raise RuntimeError;
\* the generator stays suspended at its yield and is closed there
WrapperRaises ==
    /\ pc \in {"error_yielded", "video_error_yielded"}
    /\ lastEvent \in ErrorEvents
    /\ wrapper_raised' = TRUE
    /\ pc' = "closed"
    /\ UNCHANGED <<others, inputs, loopv, clipv, eventv, composev, taskv, dlgv>>

\* api_server.py animate_story_stream.stream_events: finally: if not
\* producer_task.done(): producer_task.cancel(). The producer is suspended
\* inside the generator at "await asyncio.wait(pending, ...)"; the
\* CancelledError leaves the generator there, and asyncio.wait does not cancel
\* the tasks it was waiting for
ProducerCancelled ==
    /\ mode = "music" /\ pc = "wait"
    /\ pc' = "cancelled"
    /\ UNCHANGED <<others, inputs, loopv, clipv, eventv, composev, wrapper_raised,
                   taskv, dlgv>>

\* ---- the claims about the animation pipelines (Spec) -------------------

\* n invocations of the clip generator with a 2-second sleep before every
\* invocation but the first
RetryLog(n) ==
    [k \in 1..(2 * n - 1) |-> IF k % 2 = 1 THEN GEN ELSE SLEEP(2)]

AtAfterAttempts == pc = "after_attempts" \/ vpc = "after_attempts"

Ended == pc \in {"done", "closed"}

PanelsOf(fs) == [k \in 1..Len(fs) |-> fs[k].panel]

Ascending(ps) == \A a, b \in 1..Len(ps) : a < b => ps[a] < ps[b]

C1_Step ==
    /\ AtAfterAttempts =>
          IF video_result = "ok"
          THEN attempt < 3 /\ gen_log = RetryLog(attempt + 1)
          ELSE gen_log = RetryLog(3)
    /\ video_result' = "ok" => AtAfterAttempts'
    /\ (AtAfterAttempts /\ ~AtAfterAttempts') =>
          /\ i' = i + 1
          /\ pc' = "clip_loop" \/ vpc' = "clip_loop"
          /\ lastEvent' \notin ErrorEvents /\ ~wrapper_raised'
          /\ video_task' # "raised"
          /\ IF video_result = "ok"
             THEN clips' = Append(clips, new_clip) /\ clips_failed' = clips_failed
             ELSE /\ mode = "plain" =>
                        clips' = clips /\ clips_failed' = clips_failed + 1
                  /\ mode = "dialogue" =>
                        /\ clips' = Append(clips, NoFile)
                        /\ clips_failed' = clips_failed + 1
                  /\ mode = "music" => clips' = Append(clips, NoFile)
    /\ (\/ pc = "clip_loop" /\ pc' \notin {"clip_loop", "clip_body"}
        \/ vpc = "clip_loop" /\ video_task' = "returned") =>
          i = NumPanels + 1

\* C1: in the plain, the dialogue and the music pipeline, a panel with an
\* image whose clip generation fails on every attempt has its generator
\* invoked exactly 3 times, with a 2-second sleep before the 2nd and the 3rd
\* invocation and none before the 1st; the panel is then recorded as failed,
\* no error ends the run and the loop goes on to the next panel, ending only
\* after the last one.  A success ends the attempts for its panel.
C1_RetryBudget == [][C1_Step]_vars

\* panel 1 had an image and failed; panel 2 has just failed its third attempt
C1_Witness ==
    /\ NumPanels = 2 /\ panel_paths[1] /\ 1 \notin gen_ok
    /\ i = 2 /\ AtAfterAttempts /\ video_result # "ok" /\ Len(gen_log) = 5

\* C2 as stated: a run ends with 'No video clips generated successfully' if
\* and only if zero clips succeeded
C2_NoClipsErrorIffZeroSucceeded ==
    Ended => (lastEvent = "error_no_clips" <=> gen_ok = {})

\* C2, amended: a run that got past the validation of the panel images (and,
\* in music mode, whose video task returned) ends with 'No video clips
\* generated successfully' if and only if zero clips succeeded; with a success
\* and no assembly error it ends with 'complete'; the clips handed to every
\* concatenation are those of the succeeded panels, in ascending panel order.
C2_NoClipsErrorAfterValidation ==
    /\ (Ended /\ lastEvent \notin {"error_no_panels", "error_no_images",
                                   "error_video_failed"}) =>
          /\ lastEvent = "error_no_clips" <=> gen_ok = {}
          /\ (gen_ok # {} /\ lastEvent # "error_composition") =>
                lastEvent = "complete"
    /\ concat_count >= 1 =>
          /\ Ascending(PanelsOf(last_concat.scene_paths))
          /\ Range(PanelsOf(last_concat.scene_paths)) = gen_ok
          /\ PanelsOf(last_concat.clips_to_concat)
                = PanelsOf(last_concat.scene_paths)

\* panel 1 had an image and failed, panel 2 succeeded, the run completed
C2_Witness ==
    /\ NumPanels = 2 /\ panel_paths[1] /\ gen_ok = {2}
    /\ Ended /\ lastEvent = "complete"
    /\ PanelsOf(last_concat.scene_paths) = <<2>>

\* C3: every 'complete' event has clips_attempted = the number of panels of
\* the request, clip_count = the number of clips of the final concatenation,
\* and clip_count + clips_failed = clips_attempted.
C3_CompleteCounts ==
    complete_data.type = "complete" =>
        /\ complete_data.clips_attempted = NumPanels
        /\ complete_data.clip_count = Len(last_concat.clips_to_concat)
        /\ complete_data.clip_count + complete_data.clips_failed
              = complete_data.clips_attempted

\* a completed run of two panels, one of them without image
C3_Witness ==
    /\ complete_data.type = "complete"
    /\ \E k \in 1..NumPanels : ~panel_paths[k]
    /\ complete_data.clips_failed = 1 /\ complete_data.clip_count = 1

C8_Step ==
    /\ pc = "verify" =>
          /\ pc' = "repair" <=> "Resolution mismatch" \in verification'.failures
          /\ pc' # "repair" =>
                /\ lastEvent' = "complete"
                /\ complete_data'.verified = verification'.passed
                /\ ~verification'.passed =>
                      complete_data'.verification_failures = verification'.failures
                /\ ~verification'.passed <=> verification'.failures # {}
                /\ concat_count' = 1 /\ verify_calls' = 1
    /\ (concat_count >= 1 /\ concat_count' # concat_count) => pc = "repair"
    /\ pc = "repair" => concat_count' = 2
    /\ concat_count' <= 2 /\ verify_calls' <= 2

\* C8: the concatenation is run again if and only if the first verification
\* failed with a resolution mismatch among its failures; it is run again at
\* most once (at most two verifications); a verification failing for other
\* reasons only is followed by the 'complete' event with verified = false and
\* its failures.
C8_RepairOnlyOnResolution == [][C8_Step]_vars

\* a run that was repaired: two concatenations and two verifications
C8_RepairWitness ==
    lastEvent = "complete" /\ concat_count = 2 /\ verify_calls = 2

\* C9: when the repair runs, every clip is normalized to 1080x1920 before it
\* is concatenated, so that the second verification has no resolution
\* mismatch.
C9_RepairNormalizesEveryClip ==
    /\ concat_count = 2 =>
          \A k \in 1..Len(last_concat.clips_to_concat) :
              last_concat.clips_to_concat[k].res = EXPECTED_RES
    /\ verify_calls = 2 => "Resolution mismatch" \notin verification.failures

\* the repair ran on clips that all have the resolution 720x1280
C9_Witness ==
    /\ concat_count = 2 /\ verify_calls = 2
    /\ \A k \in 1..Len(last_concat.scene_paths) :
          last_concat.scene_paths[k].res = VEO_RES
    /\ "Resolution mismatch" \in verification.failures

\* C10: in music mode, once the video task has raised and the run has ended,
\* the music task is not left running, the last event is an error and no
\* composition step ran; whether the stream was consumed to its end or by
\* the non-streaming wrapper.
C10_MusicCancelledOnVideoFailure ==
    (mode = "music" /\ video_task = "raised" /\ Ended) =>
        /\ music_task # "running"
        /\ lastEvent \in ErrorEvents
        /\ concat_count = 0

\* the wrapper raised at the 'Video generation failed' event while the music
\* task was running
C10_Witness ==
    /\ mode = "music" /\ video_task = "raised" /\ wrapper_raised
    /\ lastEvent = "error_video_failed" /\ music_task = "running"


\* C11: in music mode an exception of the music task is not fatal.  Handling
\* it yields a 'music_progress' event, leaves music_result at None and leaves
\* the video task as it is; and a run in which the music task raised, the
\* video task returned and at least one clip succeeded calls
\* concatenate_scenes on the valid clips and ends with 'complete' carrying
\* has_music = false -- the only other end is the composition error of a
\* concatenation that itself raised.
C11_Step ==
    mode = "music" =>
      /\ (pc = "handle" /\ music_task = "raised" /\ "music" \in to_handle
              /\ "music" \notin to_handle')
            => /\ lastEvent' = "music_progress"
               /\ terminalCount' = terminalCount
               /\ music_result' = FALSE
               /\ pc' \in {"handle", "wait", "compose_start"}
      /\ music_task = "raised"
            => /\ music_task' = "raised"
               /\ video_task = "running" => video_task' \in {"running", "returned", "raised"}
               /\ video_task # "running" => video_task' = video_task
      /\ (music_task' = "raised" /\ video_task' = "returned" /\ terminalCount' > 0
              /\ ValidClips(clips') # <<>>)
            => /\ concat_count' >= 1
               /\ last_concat'.scene_paths = ValidClips(clips')
               /\ \/ /\ lastEvent' = "complete"
                     /\ complete_data'.type = "complete"
                     /\ complete_data'.has_music = FALSE
                     /\ "music" \notin final_path'.steps
                  \/ lastEvent' = "error_composition"

C11_MusicFailureNonFatal == [][C11_Step]_vars

\* a completed music run of two panels whose music task raised while the
\* video task went on to return one clip and one failure
C11_Witness ==
    /\ mode = "music" /\ music_task = "raised" /\ video_task = "returned"
    /\ lastEvent = "complete" /\ complete_data.type = "complete"
    /\ complete_data.has_music = FALSE
    /\ complete_data.clip_count = 1 /\ complete_data.clips_failed = 1
    /\ concat_count >= 1

\* C20: in every pipeline the local total_duration, which is the
\* expected_duration handed to verify_video and the total_duration of the
\* 'complete' event, is the sum of the durations of exactly the clips that
\* were concatenated; a panel whose clip failed adds nothing to it.
C20_ExpectedDurationOfConcatenated ==
    complete_data.type = "complete"
        => complete_data.total_duration
              = Len(last_concat.scene_paths) * clip_duration

\* a completed music run of two panels, one of which failed: one clip of 4 s
\* was concatenated and the expected duration is 8 s
C20_Witness ==
    /\ mode = "music" /\ complete_data.type = "complete"
    /\ NumPanels = 2 /\ gen_ok = {1}
    /\ Len(last_concat.scene_paths) = 1
    /\ complete_data.total_duration = 2 * clip_duration

\* a render_with_captions call is about to be made (music mode) or has
\* produced a captioned file
RenderIssued ==
    \/ pc = "render"
    \/ "captions" \in final_path.steps
    \/ \E k \in DOMAIN final_clips : final_clips[k].captioned

NoExternalCallYet ==
    /\ lastEvent \in {"none", "start"}
    /\ gen_log = <<>> /\ gen_ok = {}
    /\ video_task = "none" /\ music_task = "none"
    /\ audio_results = <<>>

C25_Step ==
    (lastEvent' \in {"error_no_panels", "error_no_images"}
        /\ terminalCount' = terminalCount + 1)
      => NoExternalCallYet

\* C25: in every pipeline, the 'error' event for a request without panels or
\* without any usable panel image is yielded before any external generation
\* call has been issued
C25_ValidationBeforeExternalCalls == [][C25_Step]_vars

\* music mode: the lyrics planner was called and no panel has an image, so
\* the next event is the 'No valid panel images found' error
C25_Witness ==
    /\ mode = "music" /\ pc = "collect"
    /\ lastEvent = "lyrics_progress"
    /\ NumPanels >= 1 /\ \A k \in 1..NumPanels : ~panel_paths[k]

\* C26: in dialogue mode, when the merge loop starts the clip list, the audio
\* list and (with captions enabled) the aligned-caption list hold one entry
\* per panel in panel order; entry k of the merged and of the final clips
\* is panel k's clip or None, it carries audio only if panel k's clip was
\* generated and panel k has audio, and captions only if panel k has captions
C26_PairedLists ==
    mode = "dialogue" =>
        /\ pc = "merge" =>
              /\ Len(clips) = NumPanels
              /\ Len(audio_results) = NumPanels
              /\ enable_captions => Len(aligned_captions) = NumPanels
              /\ \A k \in 1..Len(clips) : clips[k].panel \in {0, k}
              /\ \A k \in 1..Len(audio_results) : audio_results[k] => dialogues[k]
        /\ final_clips # <<>> =>
              /\ Len(final_clips) = NumPanels
              /\ \A k \in 1..Len(final_clips) :
                    /\ final_clips[k].panel \in {0, k}
                    /\ final_clips[k].panel = k <=> k \in gen_ok
                    /\ final_clips[k].audio => (k \in gen_ok /\ audio_results[k])
                    /\ final_clips[k].captioned => (enable_captions /\ aligned_captions[k])

\* the first panel has no clip, the second has its own audio and captions
C26_Witness ==
    /\ mode = "dialogue" /\ pc = "concat_start"
    /\ NumPanels = 2 /\ dialogues = <<FALSE, TRUE>>
    /\ final_clips[1] = NoFile
    /\ final_clips[2].panel = 2 /\ final_clips[2].audio /\ final_clips[2].captioned

\* the positions of the music pipeline from Step 4 (concatenation) on
ComposePcs == {"compose_start", "check_clips", "concat", "add_music",
               "lyrics_captions", "lyrics_lines", "render", "verify", "repair",
               "reverify"}

\* the task the for loop handles in this step
Handled == CHOOSE t \in to_handle : t \notin to_handle'

\* the two tasks are created together, and Step 4 and what follows run only
\* when both have finished and have been handled
C27_TasksBeforeComposition ==
    /\ (video_task = "none") <=> (music_task = "none")
    /\ (mode = "music" /\ pc \in {"wait", "handle"}) =>
          (video_task # "none" /\ music_task # "none")
    /\ (mode = "music" /\ (pc \in ComposePcs \/ concat_count >= 1)) =>
          /\ pending = {} /\ to_handle = {}
          /\ video_task = "returned" /\ music_task \in {"returned", "raised"}

C27_StepInCompletionOrder ==
    (pc = "handle" /\ to_handle' # to_handle) =>
        /\ Handled = finish_order[1]
        /\ lastEvent' = (IF Handled = "video" THEN "video_progress"
                         ELSE "music_progress")

C27_StepPerRound ==
    (pc = "handle" /\ to_handle' # to_handle) =>
        /\ Handled = finish_order[1] \/ finish_order[1] \in to_handle
        /\ lastEvent' = (IF Handled = "music" THEN "music_progress"
                         ELSE IF video_task = "raised" THEN "error_video_failed"
                         ELSE "video_progress")

Repaired == pc = "repair" /\ pc' = "reverify"

\* C35: the video the auto-retry builds carries every assembly step the
\* video it replaces carried (the music mix, the rendered captions)
C35_Step == Repaired => final_path.steps \subseteq final_path'.steps

C35_RepairKeepsAssemblySteps == [][C35_Step]_vars

\* a plain run with a music file whose repaired video has no music mix
C35_Witness ==
    /\ mode = "plain" /\ music_path_exists
    /\ pc = "done" /\ lastEvent = "complete" /\ concat_count = 2
    /\ "music" \notin final_path.steps

\* captions are burned into the final video: into one of the clips of its
\* concatenation (dialogue) or into the video itself (music)
CaptionsBurned ==
    \/ "captions" \in final_path.steps
    \/ /\ last_concat # NoCall
       /\ \E k \in 1..Len(last_concat.clips_to_concat) :
             last_concat.clips_to_concat[k].captioned

\* C36: a 'complete' event says has_captions (dialogue) or has_lyrics
\* (music) only when captions are burned into the final video
C36_CaptionFlagTruthful ==
    complete_data.type = "complete" =>
        /\ mode = "dialogue" => (complete_data.has_captions => CaptionsBurned)
        /\ mode = "music" => (complete_data.has_lyrics => CaptionsBurned)

\* a music run whose 'complete' says has_lyrics although no caption render
\* is part of the final video
C36_Witness ==
    /\ mode = "music" /\ complete_data.type = "complete"
    /\ complete_data.has_lyrics
    /\ ~CaptionsBurned

Next ==
    \/ PlainStart \/ PlainCollect \/ PlainClipLoop \/ PlainClipBody
    \/ PlainAttempt \/ PlainRetrySleep \/ PlainGenerate \/ PlainAfterAttempts
    \/ PlainCheckClips \/ PlainConcat \/ PlainMusicMix \/ PlainVerify
    \/ PlainRepair \/ PlainReverify
    \/ DialogueStart \/ DialogueCollect \/ DialogueTTS \/ DialogueGetTtsRaises
    \/ DialogueTTSReport
    \/ DialogueAlign \/ DialogueAlignAll \/ DialogueClipLoop \/ DialogueClipBody
    \/ DialogueRetrySleep \/ DialogueGenerate \/ DialogueAfterAttempts
    \/ DialogueMerge \/ DialogueCaptions \/ DialogueRenderAll
    \/ DialogueConcatStart \/ DialogueCheckClips \/ DialogueConcat
    \/ DialogueMusicMix \/ DialogueVerify \/ DialogueRepair
    \/ DialogueReverify
    \/ MusicStart \/ MusicLyrics \/ MusicLyricsCall \/ MusicCollect
    \/ MusicAnnounce \/ MusicLaunch
    \/ TaskClipLoop \/ TaskRetrySleep \/ TaskGenerate \/ TaskAfterAttempts
    \/ TaskRaises \/ MusicTaskFinishes
    \/ MusicWait \/ MusicHandle \/ MusicCancelAfterError
    \/ MusicComposeStart \/ MusicCheckClips \/ MusicConcat \/ MusicAddMusic
    \/ MusicCaptions \/ MusicLyricsLines \/ MusicRender
    \/ MusicVerify \/ MusicRepair \/ MusicReverify
    \/ ReturnAfterError \/ WrapperRaises \/ ProducerCancelled

Init == InitPipeline /\ SanitizerIdle /\ GroupingIdle /\ LinesIdle /\ UnitsIdle

Spec == Init /\ [][Next]_vars

\* C33: when a music-mode run has ended, for whatever reason, neither its
\* video task nor its music task is still running
RunOver == pc \in {"done", "closed", "raised", "cancelled"}

C33_NoTaskOutlivesRun ==
    (mode = "music" /\ RunOver) =>
        /\ video_task # "running"
        /\ music_task # "running"

\* the consumer went away while both tasks were in flight; both keep running
C33_Witness ==
    /\ mode = "music" /\ pc = "cancelled"
    /\ video_task = "running" /\ music_task = "running"
    /\ pending = {"video", "music"}

\* ------------------------------------------------------------------------
\* compose_final.py: VideoComposer.concatenate_scenes, concatenate_audio and
\* add_audio_to_clip, one call at a time (SpecComposer)
\* ------------------------------------------------------------------------
PAD_TOLERANCE == 2      \* the 0.1 of "video_duration - 0.1", in units of 0.05 s

ConcatMethods == {"concatenate_scenes", "concatenate_audio"}

InitComposer ==
    /\ PipelineIdle /\ SanitizerIdle /\ GroupingIdle /\ LinesIdle
    /\ VerifyIdle /\ TTSIdle /\ MangaIdle /\ PlanIdle /\ DialogueAudioIdle /\ PollIdle /\ ExtrasIdle
    /\ method \in ConcatMethods \cup {"add_audio_to_clip"}
    /\ scenes \in (IF method = "concatenate_scenes"
                   THEN UNION { { [k \in 1..n |-> [NoFile EXCEPT !.panel = k, !.res = rs[k]]]
                                  : rs \in [1..n -> Resolutions] } : n \in 0..MaxScenes }
                   ELSE IF method = "concatenate_audio"
                   THEN { [k \in 1..n |-> [NoFile EXCEPT !.panel = k]] : n \in 0..MaxScenes }
                   ELSE { <<>> })
    /\ target_size \in (IF method = "concatenate_scenes" THEN Resolutions
                        ELSE { <<0, 0>> })
    /\ video_duration \in (IF method = "add_audio_to_clip" THEN 1..MaxDuration ELSE {0})
    /\ audio_len \in (IF method = "add_audio_to_clip" THEN 0..MaxDuration ELSE {0})
    /\ cpc = (IF method = "concatenate_scenes" THEN "probe"
              ELSE IF method = "concatenate_audio" THEN "concat" ELSE "measure")
    /\ probes = <<>> /\ clips_to_concat = <<>> /\ normalize_calls = 0
    /\ temp_files = {} /\ audio_duration = 0 /\ audio_to_use = 0
    /\ pad_calls = 0 /\ out_duration = 0

\* concatenate_scenes: the probe loop (_probe_video returns None when ffprobe
\* fails, and width 0 x height 0 when the stream reports none), the set
\* resolutions and needs_normalize; then norm_dir.mkdir(...) or
\* clips_to_concat = list(scene_paths)
ProbeScenes ==
    /\ method = "concatenate_scenes" /\ cpc = "probe"
    /\ \E seen \in [1..Len(scenes) -> {"none", "zero", "size"}] :
          probes' = [k \in 1..Len(scenes) |->
                        [ok |-> seen[k] # "none",
                         res |-> IF seen[k] = "size" THEN scenes[k].res ELSE <<0, 0>>]]
    /\ IF NeedsNormalize(probes')
       THEN /\ temp_files' = temp_files \cup {"norm_dir"}
            /\ clips_to_concat' = <<>>
            /\ cpc' = IF Len(scenes) > 0 THEN "normalize" ELSE "concat"
       ELSE /\ clips_to_concat' = scenes
            /\ cpc' = "concat"
            /\ UNCHANGED temp_files
    /\ UNCHANGED <<method, scenes, target_size, normalize_calls, video_duration,
                   audio_len, audio_duration, audio_to_use, pad_calls, out_duration,
                   notComposer>>

\* concatenate_scenes: one iteration of the normalization loop; a clip whose
\* _normalize_clip raises is listed as the original file
NormalizeClip ==
    /\ method = "concatenate_scenes" /\ cpc = "normalize"
    /\ LET k == Len(clips_to_concat) + 1
       IN  /\ normalize_calls' = normalize_calls + 1
           /\ \/ clips_to_concat' =
                    Append(clips_to_concat,
                           [scenes[k] EXCEPT !.res = target_size, !.normalized = TRUE])
              \/ clips_to_concat' = Append(clips_to_concat, scenes[k])
           /\ cpc' = IF k = Len(scenes) THEN "concat" ELSE "normalize"
    /\ UNCHANGED <<method, scenes, target_size, probes, temp_files, video_duration,
                   audio_len, audio_duration, audio_to_use, pad_calls, out_duration,
                   notComposer>>

\* concatenate_scenes and concatenate_audio: the concat file is written and
\* ffmpeg runs; inside the try the concat file is unlinked and the norm dir
\* removed, the except clause logs and re-raises
RunConcat ==
    /\ method \in ConcatMethods /\ cpc = "concat"
    /\ clips_to_concat' = IF method = "concatenate_audio" THEN scenes
                          ELSE clips_to_concat
    /\ \/ /\ temp_files' = {}
          /\ cpc' = "returned"
       \/ /\ temp_files' = temp_files \cup {"concat_file"}
          /\ cpc' = "raised"
    /\ UNCHANGED <<method, scenes, target_size, probes, normalize_calls,
                   video_duration, audio_len, audio_duration, audio_to_use,
                   pad_calls, out_duration, notComposer>>

\* add_audio_to_clip: audio_duration = self._get_audio_duration(audio_path),
\* which is 0.0 when ffprobe fails, and the test
\* audio_duration < video_duration - 0.1
GetAudioDuration ==
    /\ method = "add_audio_to_clip" /\ cpc = "measure"
    /\ \E d \in {audio_len, 0} : audio_duration' = d
    /\ IF audio_duration' < video_duration - PAD_TOLERANCE
       THEN cpc' = "pad" /\ UNCHANGED audio_to_use
       ELSE cpc' = "mux" /\ audio_to_use' = audio_len
    /\ UNCHANGED <<method, scenes, target_size, probes, clips_to_concat,
                   normalize_calls, temp_files, video_duration, audio_len,
                   pad_calls, out_duration, notComposer>>

\* pad_audio_to_duration: apad=whole_dur extends the audio with silence to at
\* least target_duration; a failing ffmpeg raises
PadAudio ==
    /\ method = "add_audio_to_clip" /\ cpc = "pad"
    /\ pad_calls' = pad_calls + 1
    /\ \/ /\ audio_to_use' = IF audio_len < video_duration THEN video_duration
                             ELSE audio_len
          /\ cpc' = "mux"
       \/ /\ cpc' = "raised"
          /\ UNCHANGED audio_to_use
    /\ UNCHANGED <<method, scenes, target_size, probes, clips_to_concat,
                   normalize_calls, temp_files, video_duration, audio_len,
                   audio_duration, out_duration, notComposer>>

\* a variant of MuxClip without "-t video_duration"
MuxClipNoCap ==
    /\ method = "add_audio_to_clip" /\ cpc = "mux"
    /\ \/ /\ out_duration' = IF audio_to_use > video_duration
                               THEN audio_to_use ELSE video_duration
          /\ cpc' = "returned"
       \/ /\ cpc' = "raised"
          /\ UNCHANGED out_duration
    /\ UNCHANGED <<method, scenes, target_size, probes, clips_to_concat,
                   normalize_calls, temp_files, video_duration, audio_len,
                   audio_duration, audio_to_use, pad_calls, notComposer>>

\* add_audio_to_clip: the mux of the video, which lasts video_duration, with
\* audio_to_use; the output lasts as long as its longest stream, cut at
\* "-t video_duration"
MuxClip ==
    /\ method = "add_audio_to_clip" /\ cpc = "mux"
    /\ \/ /\ out_duration' = Min(IF audio_to_use > video_duration
                                 THEN audio_to_use ELSE video_duration,
                                 video_duration)
          /\ cpc' = "returned"
       \/ /\ cpc' = "raised"
          /\ UNCHANGED out_duration
    /\ UNCHANGED <<method, scenes, target_size, probes, clips_to_concat,
                   normalize_calls, temp_files, video_duration, audio_len,
                   audio_duration, audio_to_use, pad_calls, notComposer>>

NextComposer ==
    \/ ProbeScenes
    \/ NormalizeClip
    \/ RunConcat
    \/ GetAudioDuration
    \/ PadAudio
    \/ MuxClip

SpecComposer == InitComposer /\ [][NextComposer]_vars

\* ---- the claims about the VideoComposer (SpecComposer) ------------------

\* the probed resolutions (probes that succeeded with a positive size)
ProbedSizes == { probes[k].res : k \in { j \in 1..Len(probes) :
                    probes[j].ok /\ probes[j].res[1] > 0 /\ probes[j].res[2] > 0 } }

ConcatListed ==
    method = "concatenate_scenes" /\ cpc \in {"concat", "returned", "raised"}

\* C12: when the probed resolutions of the N clips all match, concatenate_scenes
\* makes no _normalize_clip call and lists the N original clips in the given
\* order.
C12_NoReencodeWhenUniform ==
    (ConcatListed /\ Cardinality(ProbedSizes) <= 1)
        => /\ normalize_calls = 0
           /\ clips_to_concat = scenes
           /\ "norm_dir" \notin temp_files

\* two clips of one probed resolution, concatenated as they are
C12_Witness ==
    /\ method = "concatenate_scenes" /\ cpc = "returned"
    /\ Len(scenes) = 2 /\ Cardinality(ProbedSizes) = 1
    /\ probes[1].ok /\ probes[2].ok /\ probes[1].res = probes[2].res
    /\ normalize_calls = 0 /\ clips_to_concat = scenes

\* C13: when two of the N clips differ in probed resolution, every one of the
\* N files listed for concatenation is a copy normalized to the target
\* resolution and no original clip is listed.
C13_OnlyNormalizedClipsListed ==
    (ConcatListed /\ Cardinality(ProbedSizes) > 1)
        => /\ Len(clips_to_concat) = Len(scenes)
           /\ \A k \in 1..Len(clips_to_concat) :
                 /\ clips_to_concat[k].normalized
                 /\ clips_to_concat[k].res = target_size

\* two clips of different probed resolutions; the normalization of one of them
\* raised and the original, which is not of the target resolution, is listed
C13_Witness ==
    /\ method = "concatenate_scenes" /\ cpc = "returned"
    /\ Cardinality(ProbedSizes) = 2 /\ normalize_calls = 2
    /\ \E k \in 1..Len(clips_to_concat) :
          /\ clips_to_concat[k] = scenes[k]
          /\ clips_to_concat[k].res # target_size

\* C15 as stated: add_audio_to_clip calls pad_audio_to_duration if and only if
\* the audio is shorter than video_duration by more than 0.1 s (2 units), and
\* the output lasts exactly video_duration.
C15_PadIffAudioShorter ==
    (method = "add_audio_to_clip" /\ cpc \in {"pad", "mux", "returned", "raised"})
        => /\ (pad_calls = 1 \/ cpc = "pad") <=> (video_duration - audio_len > 2)
           /\ cpc = "returned" => out_duration = video_duration

\* C15, amended: the padding is decided on the duration _get_audio_duration
\* reports, which is 0 when ffprobe fails.  It is called at most once, always
\* when the audio is shorter than video_duration by more than 0.1 s, never when
\* the reported duration is not; padded audio lasts at least video_duration,
\* and the output of every call that returns lasts exactly video_duration.
C15_PadOnReportedDuration ==
    (method = "add_audio_to_clip" /\ cpc \in {"mux", "returned"})
        => /\ pad_calls \in {0, 1}
           /\ (pad_calls = 1) <=> (video_duration - audio_duration > 2)
           /\ audio_duration \in {audio_len, 0}
           /\ (video_duration - audio_len > 2) => pad_calls = 1
           /\ pad_calls = 1 =>
                 audio_to_use = (IF audio_len < video_duration THEN video_duration
                                 ELSE audio_len)
           /\ pad_calls = 0 => audio_to_use = audio_len
           /\ cpc = "returned" => out_duration = video_duration

\* a returned call whose audio was shorter by more than the tolerance and was
\* padded, the output lasting video_duration
C15_Witness ==
    /\ method = "add_audio_to_clip" /\ cpc = "returned"
    /\ video_duration - audio_len > 2 /\ pad_calls = 1
    /\ audio_to_use = video_duration /\ out_duration = video_duration

\* C16: once concatenate_scenes or concatenate_audio has returned or raised,
\* neither the concat file nor the norm dir it created is on disk.
C16_TemporariesDeleted ==
    (method \in ConcatMethods /\ cpc \in {"returned", "raised"})
        => temp_files = {}

\* a concatenate_scenes call that normalized and whose ffmpeg run raised: the
\* concat file and the norm dir are both left behind
C16_Witness ==
    /\ method = "concatenate_scenes" /\ cpc = "raised"
    /\ temp_files = {"concat_file", "norm_dir"}

\* ------------------------------------------------------------------------
\* verify_output.py: verify_video with every combination of expectations
\* (SpecVerify)
\* ------------------------------------------------------------------------

duration_tolerance == 2

\* the longest duration ffprobe reports, in seconds
MaxActualSeconds == 8

\* the values of expected_duration, in seconds
ExpectedDurations == {4, 6}

Abs(x) == IF x < 0 THEN -x ELSE x

\* what the filesystem and ffprobe report about path; a field verify_video
\* never reads (after an early return) is left at TRUE or at 0
ProbedFiles ==
    { f \in [exists : BOOLEAN, size_ok : BOOLEAN, probe_ok : BOOLEAN,
             has_video : BOOLEAN, has_audio : BOOLEAN,
             actual_duration : 0..MaxActualSeconds, res : Resolutions] :
        /\ ~f.exists => (f.size_ok /\ f.probe_ok)
        /\ ~f.probe_ok => f.has_video
        /\ ~(f.exists /\ f.probe_ok /\ f.has_video)
              => (f.has_audio /\ f.actual_duration = 0 /\ f.res = EXPECTED_RES) }

\* a variant of VerifyVideoWith whose duration check fails from the
\* tolerance on (diff >= duration_tolerance)
VerifyVideoWithClosedTolerance(f, e) ==
    LET size_f == IF f.size_ok THEN {} ELSE {"File too small"}
        size_c == IF f.size_ok THEN {"file_size"} ELSE {}
        audio_bad == e.require_audio /\ ~f.has_audio
        audio_f == IF audio_bad THEN {"No audio stream found"} ELSE {}
        audio_c == IF ~audio_bad /\ f.has_audio THEN {"has_audio_stream"} ELSE {}
        diff == Abs(f.actual_duration - e.duration)
        dur_bad == e.expected_duration /\ diff >= duration_tolerance
        dur_f == IF dur_bad THEN {"Duration mismatch"} ELSE {}
        dur_c == IF e.expected_duration /\ ~dur_bad THEN {"duration"} ELSE {}
        res_on == e.expected_width /\ e.expected_height
        res_bad == res_on /\ f.res # e.res
        res_f == IF res_bad THEN {"Resolution mismatch"} ELSE {}
        res_c == IF res_on /\ ~res_bad THEN {"resolution"} ELSE {}
    IN  IF ~f.exists
        THEN [returned |-> TRUE, passed |-> FALSE, checks |-> {},
              failures |-> {"File not found"}, duration_message |-> <<>>]
        ELSE IF ~f.probe_ok
        THEN [returned |-> TRUE, passed |-> FALSE,
              checks |-> {"file_exists"} \cup size_c,
              failures |-> size_f \cup {"ffprobe failed"},
              duration_message |-> <<>>]
        ELSE IF ~f.has_video
        THEN [returned |-> TRUE, passed |-> FALSE,
              checks |-> {"file_exists"} \cup size_c,
              failures |-> size_f \cup {"No video stream found"},
              duration_message |-> <<>>]
        ELSE [returned |-> TRUE,
              passed |-> f.size_ok /\ ~audio_bad /\ ~dur_bad /\ ~res_bad,
              checks |-> {"file_exists", "has_video_stream"} \cup size_c
                            \cup audio_c \cup dur_c \cup res_c,
              failures |-> size_f \cup audio_f \cup dur_f \cup res_f,
              duration_message |-> IF dur_bad
                                   THEN <<e.duration, f.actual_duration>>
                                   ELSE <<>>]

\* a variant of VerifyVideoWith whose 'File too small' branch appends the
\* failure without result.passed = False
VerifyVideoWithSizeUnflagged(f, e) ==
    LET size_f == IF f.size_ok THEN {} ELSE {"File too small"}
        size_c == IF f.size_ok THEN {"file_size"} ELSE {}
        audio_bad == e.require_audio /\ ~f.has_audio
        audio_f == IF audio_bad THEN {"No audio stream found"} ELSE {}
        audio_c == IF ~audio_bad /\ f.has_audio THEN {"has_audio_stream"} ELSE {}
        diff == Abs(f.actual_duration - e.duration)
        dur_bad == e.expected_duration /\ diff > duration_tolerance
        dur_f == IF dur_bad THEN {"Duration mismatch"} ELSE {}
        dur_c == IF e.expected_duration /\ ~dur_bad THEN {"duration"} ELSE {}
        res_on == e.expected_width /\ e.expected_height
        res_bad == res_on /\ f.res # e.res
        res_f == IF res_bad THEN {"Resolution mismatch"} ELSE {}
        res_c == IF res_on /\ ~res_bad THEN {"resolution"} ELSE {}
    IN  IF ~f.exists
        THEN [returned |-> TRUE, passed |-> FALSE, checks |-> {},
              failures |-> {"File not found"}, duration_message |-> <<>>]
        ELSE IF ~f.probe_ok
        THEN [returned |-> TRUE, passed |-> FALSE,
              checks |-> {"file_exists"} \cup size_c,
              failures |-> size_f \cup {"ffprobe failed"},
              duration_message |-> <<>>]
        ELSE IF ~f.has_video
        THEN [returned |-> TRUE, passed |-> FALSE,
              checks |-> {"file_exists"} \cup size_c,
              failures |-> size_f \cup {"No video stream found"},
              duration_message |-> <<>>]
        ELSE [returned |-> TRUE,
              passed |-> ~audio_bad /\ ~dur_bad /\ ~res_bad,
              checks |-> {"file_exists", "has_video_stream"} \cup size_c
                            \cup audio_c \cup dur_c \cup res_c,
              failures |-> size_f \cup audio_f \cup dur_f \cup res_f,
              duration_message |-> IF dur_bad
                                   THEN <<e.duration, f.actual_duration>>
                                   ELSE <<>>]

\* verify_video(path, expected_duration, expected_width, expected_height,
\* require_audio, min_file_size, duration_tolerance): the checks in order with
\* the three early returns; e tells which optional expectations are not None.
\* passed starts TRUE and is set FALSE by each branch that appends a failure;
\* duration_message holds the two values the 'Duration mismatch' text names
VerifyVideoWith(f, e) ==
    LET size_f == IF f.size_ok THEN {} ELSE {"File too small"}
        size_c == IF f.size_ok THEN {"file_size"} ELSE {}
        audio_bad == e.require_audio /\ ~f.has_audio
        audio_f == IF audio_bad THEN {"No audio stream found"} ELSE {}
        audio_c == IF ~audio_bad /\ f.has_audio THEN {"has_audio_stream"} ELSE {}
        diff == Abs(f.actual_duration - e.duration)
        dur_bad == e.expected_duration /\ diff > duration_tolerance
        dur_f == IF dur_bad THEN {"Duration mismatch"} ELSE {}
        dur_c == IF e.expected_duration /\ ~dur_bad THEN {"duration"} ELSE {}
        res_on == e.expected_width /\ e.expected_height
        res_bad == res_on /\ f.res # e.res
        res_f == IF res_bad THEN {"Resolution mismatch"} ELSE {}
        res_c == IF res_on /\ ~res_bad THEN {"resolution"} ELSE {}
    IN  IF ~f.exists
        THEN [returned |-> TRUE, passed |-> FALSE, checks |-> {},
              failures |-> {"File not found"}, duration_message |-> <<>>]
        ELSE IF ~f.probe_ok
        THEN [returned |-> TRUE, passed |-> FALSE,
              checks |-> {"file_exists"} \cup size_c,
              failures |-> size_f \cup {"ffprobe failed"},
              duration_message |-> <<>>]
        ELSE IF ~f.has_video
        THEN [returned |-> TRUE, passed |-> FALSE,
              checks |-> {"file_exists"} \cup size_c,
              failures |-> size_f \cup {"No video stream found"},
              duration_message |-> <<>>]
        ELSE [returned |-> TRUE,
              passed |-> f.size_ok /\ ~audio_bad /\ ~dur_bad /\ ~res_bad,
              checks |-> {"file_exists", "has_video_stream"} \cup size_c
                            \cup audio_c \cup dur_c \cup res_c,
              failures |-> size_f \cup audio_f \cup dur_f \cup res_f,
              duration_message |-> IF dur_bad
                                   THEN <<e.duration, f.actual_duration>>
                                   ELSE <<>>]

InitVerify ==
    /\ PipelineIdle /\ SanitizerIdle /\ GroupingIdle /\ LinesIdle
    /\ ComposerIdle /\ TTSIdle /\ MangaIdle /\ PlanIdle /\ DialogueAudioIdle /\ PollIdle /\ ExtrasIdle
    /\ vfile \in ProbedFiles
    /\ expectations \in
          { e \in [require_audio : BOOLEAN, expected_duration : BOOLEAN,
                   duration : ExpectedDurations \cup {0},
                   expected_width : BOOLEAN, expected_height : BOOLEAN,
                   res : {EXPECTED_RES}] :
              e.expected_duration <=> e.duration # 0 }
    /\ vresult = [returned |-> FALSE]

\* result = verify_video(path, ...)
VerifyCall ==
    /\ ~vresult.returned
    /\ vresult' = VerifyVideoWith(vfile, expectations)
    /\ UNCHANGED <<vfile, expectations, notVerify>>

SpecVerify == InitVerify /\ [][VerifyCall]_vars

\* the entries by which a result accounts for each category of expectation
Accounting ==
    [file_size |-> {"file_size", "File too small"},
     audio |-> {"has_audio_stream", "No audio stream found"},
     duration |-> {"duration", "Duration mismatch"},
     resolution |-> {"resolution", "Resolution mismatch"}]

\* the categories of expectation passed in: min_file_size always is
Expected ==
    {"file_size"}
      \cup (IF expectations.require_audio THEN {"audio"} ELSE {})
      \cup (IF expectations.expected_duration THEN {"duration"} ELSE {})
      \cup (IF expectations.expected_width \/ expectations.expected_height
            THEN {"resolution"} ELSE {})

\* C14: whatever the file and the expectations, the result of verify_video
\* holds, for every expectation passed in, an entry in checks or in failures.
C14_EveryExpectationAccounted ==
    vresult.returned =>
        \A c \in Expected :
            (vresult.checks \cup vresult.failures) \cap Accounting[c] # {}

\* a file ffprobe cannot read, verified with an expected duration, an expected
\* resolution and required audio: the result holds 'ffprobe failed' and
\* nothing about the three expectations
C14_Witness ==
    /\ vresult.returned /\ vfile.exists /\ ~vfile.probe_ok
    /\ expectations.require_audio /\ expectations.expected_duration
    /\ expectations.expected_width /\ expectations.expected_height
    /\ "ffprobe failed" \in vresult.failures
    /\ \A c \in {"audio", "duration", "resolution"} :
          (vresult.checks \cup vresult.failures) \cap Accounting[c] = {}

\* verify_video got past its three early returns
AllChecksRan == vfile.exists /\ vfile.probe_ok /\ vfile.has_video

\* C31: for a file that probes and has a video stream, the duration check
\* fails exactly when |actual - expected| > duration_tolerance, the failure
\* names the expected and the actual duration, and the resolution check
\* fails exactly when the actual resolution differs from the expected one,
\* whatever the duration check found
C31_DurationAndResolutionIndependent ==
    (vresult.returned /\ AllChecksRan) =>
        /\ expectations.expected_duration =>
              /\ ("Duration mismatch" \in vresult.failures)
                    <=> (Abs(vfile.actual_duration - expectations.duration)
                            > duration_tolerance)
              /\ ("duration" \in vresult.checks)
                    <=> (Abs(vfile.actual_duration - expectations.duration)
                            <= duration_tolerance)
              /\ ("Duration mismatch" \in vresult.failures)
                    => vresult.duration_message
                          = <<expectations.duration, vfile.actual_duration>>
        /\ (expectations.expected_width /\ expectations.expected_height) =>
              /\ ("Resolution mismatch" \in vresult.failures)
                    <=> (vfile.res # expectations.res)
              /\ ("resolution" \in vresult.checks)
                    <=> (vfile.res = expectations.res)

\* a duration off by exactly the tolerance passed the duration check while
\* the resolution check failed in the same result
C31_Witness ==
    /\ vresult.returned /\ AllChecksRan
    /\ expectations.expected_duration
    /\ Abs(vfile.actual_duration - expectations.duration) = duration_tolerance
    /\ "duration" \in vresult.checks
    /\ "Resolution mismatch" \in vresult.failures

\* C40: every result verify_video returns has passed = (failures is empty),
\* the three early returns included
C40_PassedIffNoFailures ==
    vresult.returned => (vresult.passed <=> (vresult.failures = {}))

\* a result of the last return with the file too small as its only failure
C40_Witness ==
    /\ vresult.returned /\ AllChecksRan
    /\ vresult.failures = {"File too small"} /\ ~vresult.passed

\* ------------------------------------------------------------------------
\* the claim about the repair rule of _sanitize_word_segments (SpecSanitize)
\* ------------------------------------------------------------------------

\* the endMs the repair rule gives word k of the input list segs
RepairedEnd(segs, k) ==
    LET start == segs[k].startMs
        v == IF k < Len(segs)
             THEN Min(start + MIN_WORD_DURATION_MS, segs[k + 1].startMs)
             ELSE start + MIN_WORD_DURATION_MS
    IN  IF v <= start THEN start + 1 ELSE v

C29_Step ==
    (spc = "input" /\ spc' = "done") =>
        /\ segments' = segments
        /\ Len(sanitized') = Len(segments)
        /\ \A k \in 1..Len(segments) :
              /\ sanitized'[k].text = segments[k].text
              /\ sanitized'[k].startMs = segments[k].startMs
              /\ sanitized'[k].endMs =
                    (IF segments[k].endMs <= segments[k].startMs
                     THEN RepairedEnd(segments, k)
                     ELSE segments[k].endMs)

\* C29: _sanitize_word_segments leaves the list passed in as it is and
\* returns the same words in the same order with the same text and startMs;
\* endMs changes only for a word with endMs <= startMs, which gets
\* min(startMs + 50, the input startMs of the next word), startMs + 50 as the
\* last word, and startMs + 1 if that value is still <= startMs
C29_OnlyZeroDurationRepaired == [][C29_Step]_vars

\* three words: the first has no duration and is capped at the start of the
\* second, the second has no duration and starts with the third, the third
\* is left alone
C29_Witness ==
    /\ spc = "done" /\ Len(segments) = 3
    /\ segments[1].endMs <= segments[1].startMs
    /\ segments[2].startMs > segments[1].startMs
    /\ segments[2].startMs < segments[1].startMs + MIN_WORD_DURATION_MS
    /\ sanitized[1].endMs = segments[2].startMs
    /\ segments[2].endMs = segments[2].startMs
    /\ segments[3].startMs = segments[2].startMs
    /\ sanitized[2].endMs = segments[2].startMs + 1
    /\ segments[3].endMs > segments[3].startMs
    /\ sanitized[3] = segments[3]

\* ------------------------------------------------------------------------
\* qwen_tts.py: the voice cache of one QwenTTS instance in torch mode, shared
\* by concurrent generate_dialogue and initialize_character_voices calls
\* (SpecTTS)
\* ------------------------------------------------------------------------
Callers == 1..MaxCallers
Characters == 1..MaxCharacters

\* self._character_voices = {} and the calls that arrive; a call of
\* initialize_character_voices takes every persona it is given
InitTTS ==
    /\ PipelineIdle /\ SanitizerIdle /\ GroupingIdle /\ LinesIdle
    /\ ComposerIdle /\ VerifyIdle /\ MangaIdle /\ PlanIdle /\ DialogueAudioIdle /\ PollIdle /\ ExtrasIdle
    /\ _character_voices = [ch \in Characters |-> 0]
    /\ tcall \in [Callers -> [op : {"generate_dialogue", "initialize_character_voices"},
                              character_personas : (SUBSET Characters) \ {{}}]]
    /\ tpc = [c \in Callers |-> IF tcall[c].op = "generate_dialogue"
                                 THEN "start" ELSE "design"]
    /\ new_chars = [c \in Callers |-> IF tcall[c].op = "generate_dialogue"
                                       THEN {} ELSE tcall[c].character_personas]
    /\ voices = [c \in Callers |-> <<>>]
    /\ designed = [ch \in Characters |-> 0]

\* generate_dialogue: new_chars = the personas whose name is not in
\* self._character_voices; if new_chars: await initialize_character_voices(...)
DialogueNewChars(c) ==
    /\ tpc[c] = "start"
    /\ LET nc == { ch \in tcall[c].character_personas : _character_voices[ch] = 0 }
       IN  /\ new_chars' = [new_chars EXCEPT ![c] = nc]
           /\ tpc' = [tpc EXCEPT ![c] = IF nc # {} THEN "design" ELSE "returned"]
    /\ UNCHANGED <<_character_voices, tcall, voices, designed, notTTS>>

\* initialize_character_voices: voices = await loop.run_in_executor(None,
\* _initialize_voices_sync(...)), which designs a voice for every persona
DesignVoices(c) ==
    /\ tpc[c] = "design"
    /\ voices' = [voices EXCEPT ![c] = [ch \in new_chars[c] |-> designed[ch] + 1]]
    /\ designed' = [ch \in Characters |->
                       IF ch \in new_chars[c] THEN designed[ch] + 1 ELSE designed[ch]]
    /\ tpc' = [tpc EXCEPT ![c] = "update"]
    /\ UNCHANGED <<_character_voices, tcall, new_chars, notTTS>>

\* initialize_character_voices: self._character_voices.update(voices)
UpdateVoices(c) ==
    /\ tpc[c] = "update"
    /\ _character_voices' = [ch \in Characters |->
                                IF ch \in DOMAIN voices[c] THEN voices[c][ch]
                                ELSE _character_voices[ch]]
    /\ tpc' = [tpc EXCEPT ![c] = "returned"]
    /\ UNCHANGED <<tcall, new_chars, voices, designed, notTTS>>

NextTTS ==
    \/ \E c \in Callers : DialogueNewChars(c)
    \/ \E c \in Callers : DesignVoices(c)
    \/ \E c \in Callers : UpdateVoices(c)

SpecTTS == InitTTS /\ [][NextTTS]_vars

\* C17: on one QwenTTS instance every character has a voice designed at most
\* once, and a voice once cached for a character is never replaced by a
\* different one.
C17_VoiceAssignedOnce ==
    [][\A ch \in Characters :
          /\ designed'[ch] <= 1
          /\ _character_voices[ch] # 0 => _character_voices'[ch] = _character_voices[ch]]_vars

\* two generate_dialogue calls that both found the same character without a
\* voice: each designed one, and the cache holds the second in place of the
\* first
C17_Witness ==
    /\ tcall # <<>>
    /\ \E a, b \in Callers, ch \in Characters :
          /\ a # b
          /\ tcall[a].op = "generate_dialogue" /\ tcall[b].op = "generate_dialogue"
          /\ tpc[a] = "returned" /\ tpc[b] = "returned"
          /\ ch \in DOMAIN voices[a] /\ ch \in DOMAIN voices[b]
          /\ voices[a][ch] = 1 /\ voices[b][ch] = 2
          /\ designed[ch] = 2

\* ------------------------------------------------------------------------
\* generate_manga.py: MangaGenerator.generate_manga_streaming, consumed as a
\* stream or by generate_manga (SpecManga)
\* ------------------------------------------------------------------------
MIN_PANELS == 2           \* if panel_count < 2 ...
MAX_PANELS == 6           \* ... or panel_count > 6
MAX_CHARACTERS == 2       \* if len(character_refs) > 2

InitManga ==
    /\ PipelineIdle /\ SanitizerIdle /\ GroupingIdle /\ LinesIdle
    /\ ComposerIdle /\ VerifyIdle /\ TTSIdle /\ PlanIdle /\ DialogueAudioIdle /\ PollIdle /\ ExtrasIdle
    /\ panel_count \in 0..MaxStoryBeats
    /\ character_refs \in UNION { [1..n -> BOOLEAN] : n \in 0..MaxCharacterRefs }
    /\ mpc = "validate" /\ panel_index = 0 /\ describe_calls = 0
    /\ image_requests = <<>> /\ previous_panel_part = 0 /\ panels = <<>>
    /\ manga_event = "none" /\ manga_terminals = 0 /\ total_panels = -1
    /\ manga_raised = FALSE

\* a variant of MangaValidate whose upper limit of the panel count is off by one
MangaValidateLoose ==
    /\ mpc = "validate"
    /\ LET e == IF panel_count < MIN_PANELS \/ panel_count > MAX_PANELS + 1
                THEN "error_panel_count"
                ELSE IF Len(character_refs) = 0 THEN "error_no_character"
                ELSE IF Len(character_refs) > MAX_CHARACTERS
                THEN "error_too_many_characters"
                ELSE IF \E k \in 1..Len(character_refs) : ~character_refs[k]
                THEN "error_character_image"
                ELSE "none"
       IN  IF e # "none"
           THEN /\ manga_event' = e /\ manga_terminals' = manga_terminals + 1
                /\ mpc' = "error_yielded"
           ELSE /\ mpc' = "describe"
                /\ UNCHANGED <<manga_event, manga_terminals>>
    /\ UNCHANGED <<panel_count, character_refs, panel_index, describe_calls,
                   image_requests, previous_panel_part, panels, manga_raised,
                   total_panels,
                   notManga>>

\* "Validate inputs" and the loading of the character images: the first test
\* that fails yields its 'error' event
MangaValidate ==
    /\ mpc = "validate"
    /\ LET e == IF panel_count < MIN_PANELS \/ panel_count > MAX_PANELS
                THEN "error_panel_count"
                ELSE IF Len(character_refs) = 0 THEN "error_no_character"
                ELSE IF Len(character_refs) > MAX_CHARACTERS
                THEN "error_too_many_characters"
                ELSE IF \E k \in 1..Len(character_refs) : ~character_refs[k]
                THEN "error_character_image"
                ELSE "none"
       IN  IF e # "none"
           THEN /\ manga_event' = e /\ manga_terminals' = manga_terminals + 1
                /\ mpc' = "error_yielded"
           ELSE /\ mpc' = "describe"
                /\ UNCHANGED <<manga_event, manga_terminals>>
    /\ UNCHANGED <<panel_count, character_refs, panel_index, describe_calls,
                   image_requests, previous_panel_part, panels, manga_raised,
                   total_panels,
                   notManga>>

\* desc = await self._describe_character(...) for one character (a failed
\* call returns ""); after the last one the 'start' event
MangaDescribe ==
    /\ mpc = "describe"
    /\ describe_calls' = describe_calls + 1
    /\ IF describe_calls' = Len(character_refs)
       THEN manga_event' = "start" /\ mpc' = "progress" /\ panel_index' = 1
       ELSE UNCHANGED <<manga_event, mpc, panel_index>>
    /\ UNCHANGED <<panel_count, character_refs, image_requests,
                   previous_panel_part, panels, manga_terminals, manga_raised,
                   total_panels,
                   notManga>>

\* for i, story_beat in enumerate(story_beats): the 'progress' event of the
\* panel; after the loop the 'complete' event
MangaProgress ==
    /\ mpc = "progress"
    /\ IF panel_index > panel_count
       THEN /\ manga_event' = "complete" /\ manga_terminals' = manga_terminals + 1
            /\ total_panels' = Len(panels)
            /\ mpc' = "done"
       ELSE /\ manga_event' = "progress" /\ mpc' = "generate"
            /\ UNCHANGED <<manga_terminals, total_panels>>
    /\ UNCHANGED <<panel_count, character_refs, panel_index, describe_calls,
                   image_requests, previous_panel_part, panels, manga_raised,
                   notManga>>

\* a variant of MangaGeneratePanel in which a failed panel clears the
\* previous-panel reference
MangaGeneratePanelClears ==
    /\ mpc = "generate"
    /\ image_requests' = Append(image_requests,
                                [panel |-> panel_index,
                                 previous_panel |-> previous_panel_part])
    /\ \/ /\ previous_panel_part' = panel_index
          /\ panels' = Append(panels, panel_index)
          /\ manga_event' = "panel"
       \/ /\ manga_event' = "panel_error"
          /\ previous_panel_part' = 0
          /\ UNCHANGED panels
    /\ panel_index' = panel_index + 1
    /\ mpc' = "progress"
    /\ UNCHANGED <<panel_count, character_refs, describe_calls, manga_terminals,
                   manga_raised, total_panels,
                   notManga>>

\* response = await asyncio.to_thread(call_gemini) with the previous panel as
\* reference when there is one; an image is saved, kept as previous_panel_part
\* and reported by a 'panel' event, anything else is a 'panel_error' event
MangaGeneratePanel ==
    /\ mpc = "generate"
    /\ image_requests' = Append(image_requests,
                                [panel |-> panel_index,
                                 previous_panel |-> previous_panel_part])
    /\ \/ /\ previous_panel_part' = panel_index
          /\ panels' = Append(panels, panel_index)
          /\ manga_event' = "panel"
       \/ /\ manga_event' = "panel_error"
          /\ UNCHANGED <<previous_panel_part, panels>>
    /\ panel_index' = panel_index + 1
    /\ mpc' = "progress"
    /\ UNCHANGED <<panel_count, character_refs, describe_calls, manga_terminals,
                   manga_raised, total_panels,
                   notManga>>

\* the generator is resumed after an 'error' event by a consumer of the
\* stream: return
MangaReturnAfterError ==
    /\ mpc = "error_yielded"
    /\ mpc' = "done"
    /\ UNCHANGED <<panel_count, character_refs, panel_index, describe_calls,
                   image_requests, previous_panel_part, panels, manga_event,
                   manga_terminals, manga_raised, total_panels,
                   notManga>>

\* generate_manga: elif event.type == 'error': raise RuntimeError(...)
MangaWrapperRaises ==
    /\ mpc = "error_yielded"
    /\ manga_raised' = TRUE
    /\ mpc' = "closed"
    /\ UNCHANGED <<panel_count, character_refs, panel_index, describe_calls,
                   image_requests, previous_panel_part, panels, manga_event,
                   manga_terminals, total_panels,
                   notManga>>

NextManga ==
    \/ MangaValidate
    \/ MangaDescribe
    \/ MangaProgress
    \/ MangaGeneratePanel
    \/ MangaReturnAfterError
    \/ MangaWrapperRaises

SpecManga == InitManga /\ [][NextManga]_vars

\* C18: a request whose panel count is outside 2..6 or whose character count
\* is outside 1..2 is answered by an 'error' event as the only event (and
\* generate_manga raises on it); no character description and no image
\* request is ever issued for it, in particular none for a clamped count.  A
\* request inside both ranges is not rejected for its counts.
C18_RangeRejectedBeforeAnyCall ==
    LET bad_panels == panel_count < 2 \/ panel_count > 6
        bad_chars == Len(character_refs) < 1 \/ Len(character_refs) > 2
    IN  /\ (mpc \notin {"idle", "validate"} /\ (bad_panels \/ bad_chars))
            => /\ manga_event = (IF bad_panels THEN "error_panel_count"
                                 ELSE IF Len(character_refs) < 1
                                 THEN "error_no_character"
                                 ELSE "error_too_many_characters")
               /\ manga_terminals = 1
               /\ describe_calls = 0 /\ image_requests = <<>> /\ panels = <<>>
               /\ mpc \in {"error_yielded", "done", "closed"}
               /\ mpc = "closed" <=> manga_raised
        /\ (mpc \notin {"idle", "validate"} /\ ~bad_panels /\ ~bad_chars)
            => manga_event \notin {"error_panel_count", "error_no_character",
                                   "error_too_many_characters"}

\* a request of seven story beats: generate_manga raised on the 'error' event
\* and no model call was made
C18_Witness ==
    /\ panel_count = 7 /\ Len(character_refs) = 1 /\ character_refs[1]
    /\ manga_event = "error_panel_count" /\ manga_raised
    /\ describe_calls = 0 /\ image_requests = <<>>

\* the image of the highest-index panel before panel r that succeeded, 0 for none
LastSucceededBefore(r) ==
    LET earlier == { q \in Range(panels) : q < r }
    IN  IF earlier = {} THEN 0
        ELSE CHOOSE q \in earlier : \A q2 \in earlier : q2 <= q

\* C28: the image requests are issued one per panel in panel order, each
\* after the generation of every earlier panel has ended; request r carries
\* the image of the highest-index earlier panel that succeeded, or none; a
\* failed panel does not end the run, and the 'complete' event reports the
\* number of panels that succeeded
C28_PanelsChained ==
    /\ \A r \in 1..Len(image_requests) :
          /\ image_requests[r].panel = r
          /\ image_requests[r].previous_panel = LastSucceededBefore(r)
    /\ panel_index > 0 => Len(image_requests) = panel_index - 1
    /\ \A q \in Range(panels) : q <= Len(image_requests)
    /\ manga_event \in {"panel", "panel_error"} => mpc = "progress"
    /\ manga_event = "complete" =>
          /\ Len(image_requests) = panel_count
          /\ total_panels = Cardinality(Range(panels))
          /\ total_panels = Len(panels)
    /\ manga_event # "complete" => total_panels = -1

\* three panels of which the second failed: the third request carried the
\* first panel's image, and the run completed with two panels
C28_Witness ==
    /\ panel_count = 3 /\ manga_event = "complete"
    /\ panels = <<1, 3>>
    /\ image_requests[2].previous_panel = 1
    /\ image_requests[3].previous_panel = 1
    /\ total_panels = 2

\* ------------------------------------------------------------------------
\* elevenlabs_music.py: the composition plan built by
\* ElevenLabsMusicGenerator.generate_music (SpecPlan)
\* ------------------------------------------------------------------------
LA == 0     \* the filler line "la la la"; a lyric line is its line number

\* a variant of NumSections without the max(1, ...)
NumSectionsNoFloor(duration, clip_dur) ==
    IF clip_dur > 0 THEN duration \div clip_dur ELSE 4

\* num_sections = max(1, duration // clip_duration) if clip_duration > 0 else 4
NumSections(duration, clip_dur) ==
    IF clip_dur > 0
    THEN (IF duration \div clip_dur > 1 THEN duration \div clip_dur ELSE 1)
    ELSE 4

\* sections_lines: the lyrics grouped by structure tags and, when that does
\* not give num_sections groups, the even grouping of all lines, filled up
\* with ["la la la"] and cut to num_sections
SectionsLines(ly, num_sections) ==
    LET RECURSIVE ByTags(_, _, _)
        ByTags(k, current_section, acc) ==
            IF k > Len(ly)
            THEN (IF current_section # <<>> THEN Append(acc, current_section) ELSE acc)
            ELSE IF ly[k] = "blank" THEN ByTags(k + 1, current_section, acc)
            ELSE IF ly[k] = "tag"
            THEN (IF current_section # <<>>
                  THEN ByTags(k + 1, <<>>, Append(acc, current_section))
                  ELSE ByTags(k + 1, current_section, acc))
            ELSE ByTags(k + 1, Append(current_section, k), acc)
        by_tags == ByTags(1, <<>>, <<>>)
        found == SelectSeq([k \in 1..Len(ly) |-> k], LAMBDA k : ly[k] = "line")
        all_lines == IF found = <<>> THEN [k \in 1..8 |-> LA] ELSE found
        lines_per == IF Len(all_lines) \div num_sections > 1
                     THEN Len(all_lines) \div num_sections ELSE 1
        chunks == (Len(all_lines) + lines_per - 1) \div lines_per
        grouped == [j \in 1..chunks |->
                       SubSeq(all_lines, (j - 1) * lines_per + 1,
                              Min(j * lines_per, Len(all_lines)))]
        filled == [j \in 1..(IF chunks < num_sections THEN num_sections ELSE chunks) |->
                      IF j <= chunks THEN grouped[j] ELSE <<LA>>]
    IN  IF Len(by_tags) = num_sections THEN by_tags
        ELSE SubSeq(filled, 1, num_sections)

InitPlan ==
    /\ PipelineIdle /\ SanitizerIdle /\ GroupingIdle /\ LinesIdle
    /\ ComposerIdle /\ VerifyIdle /\ TTSIdle /\ MangaIdle /\ DialogueAudioIdle /\ PollIdle /\ ExtrasIdle
    /\ lyrics \in SeqsUpTo({"tag", "blank", "line"}, MaxLyricLines)
    /\ music_duration \in 0..MaxMusicSeconds
    /\ section_seconds \in 0..MaxSectionSeconds
    /\ plan = [built |-> FALSE, sections |-> <<>>]

\* sections.append(SongSection(..., duration_ms=clip_duration * 1000,
\* lines=sec_lines)) for every entry of sections_lines; plan = MusicPrompt(...)
BuildPlan ==
    /\ ~plan.built
    /\ LET sl == SectionsLines(lyrics, NumSections(music_duration, section_seconds))
       IN  plan' = [built |-> TRUE,
                    sections |-> [j \in 1..Len(sl) |->
                                     [duration_ms |-> section_seconds * 1000,
                                      lines |-> sl[j]]]]
    /\ UNCHANGED <<lyrics, music_duration, section_seconds, notPlan>>

SpecPlan == InitPlan /\ [][BuildPlan]_vars

\* the sum of the section durations of the plan
PlanTotalMs ==
    LET RECURSIVE Sum(_)
        Sum(k) == IF k = 0 THEN 0 ELSE plan.sections[k].duration_ms + Sum(k - 1)
    IN  Sum(Len(plan.sections))

\* C19 as stated: for any lyrics and clip_duration > 0 the plan has exactly
\* duration // clip_duration sections of clip_duration * 1000 ms each.
C19_SectionsPerClip ==
    (plan.built /\ section_seconds > 0)
        => /\ Len(plan.sections) = music_duration \div section_seconds
           /\ \A j \in 1..Len(plan.sections) : plan.sections[j].duration_ms = section_seconds * 1000

\* C19, amended: for any lyrics and clip_duration > 0 the plan has exactly
\* max(1, duration // clip_duration) sections of clip_duration * 1000 ms each;
\* so when duration is (number of clips) x clip_duration for at least one
\* clip, as in the music pipeline, the section durations sum to
\* (number of clips) x clip_duration x 1000 ms.
C19_SectionsPerClipAtLeastOne ==
    (plan.built /\ section_seconds > 0)
        => /\ Len(plan.sections) = (IF music_duration \div section_seconds >= 1
                           THEN music_duration \div section_seconds ELSE 1)
           /\ \A j \in 1..Len(plan.sections) : plan.sections[j].duration_ms = section_seconds * 1000
           /\ \A n \in 1..MaxMusicSeconds :
                 music_duration = n * section_seconds
                    => /\ Len(plan.sections) = n
                       /\ PlanTotalMs = n * section_seconds * 1000

\* a plan for two clips of 2 s built from lyrics of three lines under one tag:
\* the even grouping gives two sections of 2000 ms
C19_Witness ==
    /\ plan.built /\ section_seconds = 2 /\ music_duration = 4
    /\ lyrics = <<"tag", "line", "line", "line">>
    /\ Len(plan.sections) = 2 /\ PlanTotalMs = 4000

\* ------------------------------------------------------------------------
\* generate_animated_story.py, Step 2 of dialogue mode, with
\* QwenTTS.generate_dialogue (qwen_tts.py): one batch call for all lines
\* ------------------------------------------------------------------------

\* one call of tts.generate_speech for dialogue line j (1-based)
SPEECH(j) == [op |-> "generate_speech", line |-> j]

\* dialogue_index_map: the panels that carry a dialogue line, in panel order
dialogue_index_map ==
    SelectSeq([k \in 1..NumPanels |-> k], LAMBDA k : dialogues[k])

\* tts_result_map.get(i): the TTSResult of panel k, if there is one
tts_result_map(k) ==
    \E idx \in 1..Len(dialogue_index_map) :
        /\ dialogue_index_map[idx] = k
        /\ idx <= Len(tts_results) /\ tts_results[idx]

\* the generator has yielded the 'Generating dialogue audio' event of Step 2
InitDialogueAudio ==
    /\ SanitizerIdle /\ GroupingIdle /\ LinesIdle
    /\ ComposerIdle /\ VerifyIdle /\ TTSIdle /\ MangaIdle /\ PlanIdle /\ PollIdle /\ ExtrasIdle
    /\ mode = "dialogue"
    /\ panel_paths \in { pp \in UNION { [1..n -> BOOLEAN] : n \in 1..MaxBatchPanels } :
                           \E k \in DOMAIN pp : pp[k] }
    /\ music_path_exists \in BOOLEAN
    /\ enable_captions \in BOOLEAN
    /\ dialogues \in [1..NumPanels -> BOOLEAN]
    /\ tts_ok = FALSE /\ audio_results = <<>> /\ aligned_captions = <<>>
    /\ final_clips = <<>>
    /\ pc = "tts" /\ i = 0 /\ attempt = 0 /\ video_result = "None"
    /\ new_clip = NoFile
    /\ gen_log = <<>> /\ clips = <<>> /\ clips_failed = 0 /\ gen_ok = {}
    /\ lastEvent = "tts_progress" /\ terminalCount = 0
    /\ complete_data = [type |-> "none"]
    /\ last_concat = NoCall /\ concat_count = 0 /\ final_path = NoVideo
    /\ verify_calls = 0 /\ verification = NoVerification
    /\ wrapper_raised = FALSE
    /\ vpc = "none" /\ video_task = "none" /\ music_task = "none"
    /\ music_result = FALSE /\ pending = {} /\ to_handle = {}
    /\ finish_order = <<>>
    /\ tts_results = <<>> /\ dialogue_results = <<>> /\ speech_calls = <<>>

\* the lines are collected; without any dialogue every panel gets
\* (None, 0.0, None), otherwise generate_dialogue is entered
AudioCollectLines ==
    /\ mode = "dialogue" /\ pc = "tts"
    /\ IF dialogue_index_map = <<>>
       THEN /\ audio_results' = [k \in 1..NumPanels |-> FALSE]
            /\ pc' = "align"
       ELSE /\ pc' = "generate_dialogue"
            /\ UNCHANGED audio_results
    /\ UNCHANGED <<others, inputs, loopv, clipv, eventv, composev, wrapper_raised,
                   taskv, tts_ok, aligned_captions, final_clips>>

\* generate_dialogue: await self.initialize_character_voices(...) raises; the
\* pipeline's except sets tts_results = [None] * len(dialogue_lines_for_tts)
AudioInitVoicesRaises ==
    /\ mode = "dialogue" /\ pc = "generate_dialogue"
    /\ speech_calls = <<>>
    /\ tts_results' = [idx \in 1..Len(dialogue_index_map) |-> FALSE]
    /\ i' = 1
    /\ pc' = "tts_report"
    /\ UNCHANGED <<svars, gvars, lvars, cvars, vvars, tvars, mvars, uvars, qvars, wvars,
                   dialogue_results, speech_calls,
                   inputs, attempt, video_result, new_clip, gen_log, clipv, eventv,
                   composev, wrapper_raised, taskv, dlgv>>

\* generate_dialogue: result = await self.generate_speech(...) for the next
\* line.  It returns (the wav is written, results.append(result), and after
\* the last line the list is returned) or it raises: nothing in
\* generate_dialogue catches, so the pipeline's except sets every line to None
AudioGenerateSpeech ==
    /\ mode = "dialogue" /\ pc = "generate_dialogue"
    /\ LET n == Len(dialogue_index_map)
           j == Len(dialogue_results) + 1
       IN  /\ speech_calls' = Append(speech_calls, SPEECH(j))
           /\ \/ /\ dialogue_results' = Append(dialogue_results, j)
                 /\ IF j = n
                    THEN /\ tts_results' = [idx \in 1..n |-> TRUE]
                         /\ i' = 1
                         /\ pc' = "tts_report"
                    ELSE UNCHANGED <<tts_results, i, pc>>
              \/ /\ tts_results' = [idx \in 1..n |-> FALSE]
                 /\ i' = 1
                 /\ pc' = "tts_report"
                 /\ UNCHANGED dialogue_results
    /\ UNCHANGED <<svars, gvars, lvars, cvars, vvars, tvars, mvars, uvars, qvars, wvars,
                   inputs, attempt, video_result, new_clip, gen_log, clipv, eventv,
                   composev, wrapper_raised, taskv, dlgv>>

\* for i, dialogue in enumerate(dialogues): audio_results.append(...) and the
\* 'tts_progress' event of the panel
AudioReport ==
    /\ mode = "dialogue" /\ pc = "tts_report"
    /\ audio_results' = Append(audio_results, dialogues[i] /\ tts_result_map(i))
    /\ Emit("tts_progress")
    /\ IF i < NumPanels
       THEN i' = i + 1 /\ pc' = "tts_report"
       ELSE i' = i /\ pc' = "align"
    /\ UNCHANGED <<others, inputs, attempt, video_result, new_clip, gen_log, clipv,
                   complete_data, composev, wrapper_raised, taskv, tts_ok,
                   aligned_captions, final_clips>>

NextDialogueAudio ==
    \/ AudioCollectLines
    \/ AudioInitVoicesRaises
    \/ AudioGenerateSpeech
    \/ AudioReport

SpecDialogueAudio == InitDialogueAudio /\ [][NextDialogueAudio]_vars

\* the dialogue line of panel k (1-based), 0 for a panel without dialogue
LineOf(k) ==
    IF dialogues[k] THEN Cardinality({ m \in 1..k : dialogues[m] }) ELSE 0

\* the generate_speech calls made for dialogue line j
SpeechCallsOf(j) == SelectSeq(speech_calls, LAMBDA c : c = SPEECH(j))

\* C21: when Step 2 is over, every panel whose line was synthesized (its
\* generate_speech returned and its wav was written) has an audio path in
\* audio_results, whatever happened to the other lines
C21_OtherLinesKeepAudio ==
    pc = "align" =>
        \A k \in 1..NumPanels :
            (dialogues[k] /\ LineOf(k) \in Range(dialogue_results))
                => audio_results[k]

\* the first line was synthesized, the second raised, and no panel has audio
C21_Witness ==
    /\ pc = "align"
    /\ Len(dialogue_index_map) >= 2
    /\ dialogue_results = <<1>>
    /\ speech_calls = <<SPEECH(1), SPEECH(2)>>
    /\ \A k \in 1..NumPanels : ~audio_results[k]

\* C22: when Step 2 is over, every dialogue panel recorded without audio had
\* its line attempted max_attempts times, with a sleep before each retry
C22_SpeechRetried ==
    pc = "align" =>
        \A k \in 1..NumPanels :
            (dialogues[k] /\ ~audio_results[k]) =>
                /\ Len(SpeechCallsOf(LineOf(k))) = max_attempts
                /\ \A c \in 2..Len(speech_calls) :
                      (speech_calls[c] = SPEECH(LineOf(k))
                         /\ \E b \in 1..(c - 1) : speech_calls[b] = SPEECH(LineOf(k)))
                        => speech_calls[c - 1].op = "sleep"

\* a line failed after a single generate_speech call and no sleep
C22_Witness ==
    /\ pc = "align"
    /\ speech_calls = <<SPEECH(1)>>
    /\ dialogue_results = <<>>
    /\ \E k \in 1..NumPanels : dialogues[k] /\ ~audio_results[k]

\* ------------------------------------------------------------------------
\* generate_video.py, qwen_tts.py: the loops that poll an external operation
\* (SpecPoll, SpecPollFair)
\* ------------------------------------------------------------------------
VEO_POLL_INTERVAL_SECONDS == 10
VEO_MAX_WAIT_SECONDS == 300

\* the longest an operations.get call takes, in seconds
MaxCallSeconds == 1

\* one of the three loops is about to run; the clip call is attempt 1 of the
\* retry loop of the pipeline
InitPoll ==
    /\ PipelineIdle /\ SanitizerIdle /\ GroupingIdle /\ LinesIdle
    /\ ComposerIdle /\ VerifyIdle /\ TTSIdle /\ MangaIdle /\ PlanIdle
    /\ DialogueAudioIdle /\ ExtrasIdle
    /\ poll_loop \in {"veo", "tts", "file"}
    /\ qpc = "start" /\ elapsed = 0 /\ poll_result = "none"
    /\ poll_attempt = IF poll_loop = "veo" THEN 1 ELSE 0

\* start_veo_operation: raises, or returns an operation that is done or not;
\* poll_operation then reads start_time
VeoStart ==
    /\ poll_loop = "veo" /\ qpc = "start"
    /\ elapsed' = 0
    /\ \/ qpc' = "failed" /\ poll_result' = "error"
       \/ qpc' \in {"poll", "done"} /\ poll_result' = "none"
    /\ UNCHANGED <<poll_loop, poll_attempt, notPoll>>

\* the operation is not done and elapsed > VEO_MAX_WAIT_SECONDS: TimeoutError,
\* caught by the except of generate_minimal_motion_clip (video_path=None)
VeoTimeout ==
    /\ poll_loop = "veo" /\ qpc = "poll"
    /\ elapsed > VEO_MAX_WAIT_SECONDS
    /\ qpc' = "failed" /\ poll_result' = "timeout"
    /\ UNCHANGED <<poll_loop, elapsed, poll_attempt, notPoll>>

\* the operation is not done and the wait is not over: sleep, then
\* operations.get, which raises or returns the operation, done or not
VeoSleepAndGet ==
    /\ poll_loop = "veo" /\ qpc = "poll"
    /\ ~(elapsed > VEO_MAX_WAIT_SECONDS)
    /\ \E d \in 0..MaxCallSeconds :
          elapsed' = elapsed + VEO_POLL_INTERVAL_SECONDS + d
    /\ \/ qpc' = "failed" /\ poll_result' = "error"
       \/ qpc' \in {"poll", "done"} /\ poll_result' = poll_result
    /\ UNCHANGED <<poll_loop, poll_attempt, notPoll>>

\* the operation is done: a response with a video is saved, one without is
\* returned as video_path=None
VeoResponse ==
    /\ poll_loop = "veo" /\ qpc = "done"
    /\ \/ qpc' = "ended" /\ poll_result' = "clip"
       \/ qpc' = "failed" /\ poll_result' = "no_video"
    /\ UNCHANGED <<poll_loop, elapsed, poll_attempt, notPoll>>

\* the retry loop of the pipeline: an attempt without a video is followed by
\* the next attempt, the last one by clips_failed += 1
VeoRetry ==
    /\ poll_loop = "veo" /\ qpc = "failed"
    /\ IF poll_attempt < max_attempts
       THEN /\ poll_attempt' = poll_attempt + 1
            /\ qpc' = "start" /\ elapsed' = 0
            /\ poll_result' = poll_result
       ELSE /\ qpc' = "ended" /\ poll_result' = "clips_failed"
            /\ UNCHANGED <<poll_attempt, elapsed>>
    /\ UNCHANGED <<poll_loop, notPoll>>

\* _call_tts_api: the POST raises, answers synchronously, or queues the request
TtsSubmit ==
    /\ poll_loop = "tts" /\ qpc = "start"
    /\ \/ qpc' = "ended" /\ poll_result' \in {"error", "audio"}
       \/ qpc' = "status" /\ poll_result' = "none"
    /\ UNCHANGED <<poll_loop, elapsed, poll_attempt, notPoll>>

\* while True: the status request; COMPLETED breaks, FAILED raises, any
\* other status goes to the sleep
TtsStatus ==
    /\ poll_loop = "tts" /\ qpc = "status"
    /\ \E status \in {"COMPLETED", "FAILED", "IN_QUEUE", "IN_PROGRESS"} :
          CASE status = "COMPLETED" -> qpc' = "ended" /\ poll_result' = "audio"
            [] status = "FAILED" -> qpc' = "ended" /\ poll_result' = "error"
            [] OTHER -> qpc' = "sleep" /\ poll_result' = status
    /\ UNCHANGED <<poll_loop, elapsed, poll_attempt, notPoll>>

\* time.sleep(2), then the next round of while True
TtsSleep ==
    /\ poll_loop = "tts" /\ qpc = "sleep"
    /\ qpc' = "status"
    /\ UNCHANGED <<poll_loop, elapsed, poll_attempt, poll_result, notPoll>>

\* evaluate_clip: files.upload raises (the except returns an error dict) or
\* returns the file in some state
FileUpload ==
    /\ poll_loop = "file" /\ qpc = "start"
    /\ \/ qpc' = "ended" /\ poll_result' = "error"
       \/ qpc' = "while" /\ poll_result' \in {"PROCESSING", "ACTIVE", "FAILED"}
    /\ UNCHANGED <<poll_loop, elapsed, poll_attempt, notPoll>>

\* while video_file.state.name == "PROCESSING": time.sleep(2); any other
\* state leaves the loop
FileWhile ==
    /\ poll_loop = "file" /\ qpc = "while"
    /\ IF poll_result = "PROCESSING"
       THEN qpc' = "get" /\ poll_result' = poll_result
       ELSE qpc' = "ended"
            /\ poll_result' = IF poll_result = "ACTIVE" THEN "evaluation" ELSE "error"
    /\ UNCHANGED <<poll_loop, elapsed, poll_attempt, notPoll>>

\* files.get: raises or returns the file in some state
FileGet ==
    /\ poll_loop = "file" /\ qpc = "get"
    /\ \/ qpc' = "ended" /\ poll_result' = "error"
       \/ qpc' = "while" /\ poll_result' \in {"PROCESSING", "ACTIVE", "FAILED"}
    /\ UNCHANGED <<poll_loop, elapsed, poll_attempt, notPoll>>

NextPoll ==
    \/ VeoStart
    \/ VeoTimeout
    \/ VeoSleepAndGet
    \/ VeoResponse
    \/ VeoRetry
    \/ TtsSubmit
    \/ TtsStatus
    \/ TtsSleep
    \/ FileUpload
    \/ FileWhile
    \/ FileGet

SpecPoll == InitPoll /\ [][NextPoll]_vars

\* the thread that runs the loop is never suspended for ever
SpecPollFair == SpecPoll /\ WF_vars(NextPoll)

\* C23: every polling loop ends: the caller gets a result, an error or a
\* timeout, however long the external operation stays unfinished
C23_EveryPollLoopEnds == <>(qpc = "ended")

\* the speech request is still not completed and _call_tts_api sleeps before
\* it asks again, with no timeout having been raised
C23_Witness ==
    /\ poll_loop = "tts" /\ qpc = "sleep"
    /\ poll_result \in {"IN_QUEUE", "IN_PROGRESS"}

\* ------------------------------------------------------------------------
\* render_captions.py: the karaoke line of _generate_ass_content
\* (SpecKaraoke)
\* ------------------------------------------------------------------------
MaxKaraokeWords == 3

\* the word times, in milliseconds
KaraokeTimes == {0, 5, 10, 20, 40}

Max(a, b) == IF a >= b THEN a ELSE b

\* the captions handed to the renderer: the words in time order, none ending
\* before it starts, the caption spanning its words
KaraokeCaptions ==
    { [startMs |-> IF w = <<>> THEN 0 ELSE w[1].startMs,
       endMs |-> IF w = <<>> THEN 0 ELSE w[Len(w)].endMs,
       words |-> w] :
        w \in { x \in SeqsUpTo([startMs : KaraokeTimes, endMs : KaraokeTimes],
                               MaxKaraokeWords) :
                  /\ \A j \in 1..Len(x) : x[j].startMs <= x[j].endMs
                  /\ \A j \in 1..(Len(x) - 1) : x[j].endMs <= x[j + 1].startMs } }

InitKaraoke ==
    /\ PipelineIdle /\ SanitizerIdle /\ GroupingIdle /\ LinesIdle
    /\ ComposerIdle /\ VerifyIdle /\ TTSIdle /\ MangaIdle /\ PlanIdle
    /\ DialogueAudioIdle /\ PollIdle /\ LyricsIdle /\ RunsIdle
    /\ kcaption \in KaraokeCaptions
    /\ kparts = <<>> /\ kpc = "input"

\* duration_cs = max(1, (word.endMs - word.startMs) // 10)
duration_cs(word) == Max(1, (word.endMs - word.startMs) \div 10)

\* the loop over seg.words: one \k tag per word
GenerateAssContent ==
    /\ kpc = "input"
    /\ kparts' = [j \in 1..Len(kcaption.words) |-> duration_cs(kcaption.words[j])]
    /\ kpc' = "rendered"
    /\ UNCHANGED <<kcaption, base, yvars, runs>>

SpecKaraoke == InitKaraoke /\ [][GenerateAssContent]_vars

RECURSIVE SumTo(_, _)
\* the sum of the first n entries of the sequence q
SumTo(q, n) == IF n = 0 THEN 0 ELSE SumTo(q, n - 1) + q[n]

\* C39: in a rendered caption the \k durations before word n add up to the
\* offset of word n from the start of the caption, to within one
\* centisecond for each word before it
C39_HighlightStartsAtWordStart ==
    kpc = "rendered" =>
        \A n \in 1..Len(kcaption.words) :
            Abs(10 * SumTo(kparts, n - 1)
                  - (kcaption.words[n].startMs - kcaption.startMs))
                <= 10 * (n - 1)

\* two words with a silent gap of 30 ms between them: the highlight of the
\* second begins 1 cs after the start of the caption, the word 40 ms after
C39_Witness ==
    /\ kpc = "rendered"
    /\ kcaption.words = <<[startMs |-> 0, endMs |-> 10],
                          [startMs |-> 40, endMs |-> 40]>>
    /\ kparts = <<1, 1>>

\* ------------------------------------------------------------------------
\* the event streams of the three animation pipelines and of
\* generate_manga_streaming (SpecStreams)
\* ------------------------------------------------------------------------
InitStreams == Init \/ InitManga

NextStreams == Next \/ NextManga

SpecStreams == InitStreams /\ [][NextStreams]_vars

\* the stream of the animation generator is over: it returned, was closed by
\* its wrapper, or ended by an exception
StreamOver == pc \in {"done", "closed", "raised"}

ProgressEvents == {"video_progress", "tts_progress", "align_progress",
                   "lyrics_progress", "music_progress", "caption_progress",
                   "compose"}

\* a terminal event is the last event, and 'start' is the first one
C34_Step ==
    /\ lastEvent \in TerminalEvents => lastEvent' = lastEvent
    /\ (lastEvent' = "start" /\ lastEvent # "start") => lastEvent = "none"
    /\ (lastEvent' \in ProgressEvents) => lastEvent # "none"
    /\ manga_event \notin {"none", "start", "progress", "panel", "panel_error"}
          => manga_event' = manga_event
    /\ (manga_event' = "start" /\ manga_event # "start") => manga_event = "none"
    /\ (manga_event' \in {"progress", "panel", "panel_error"}) => manga_event # "none"

\* a stream that is over holds exactly one terminal event, and a caller got
\* an exception only from a stream with an 'error' event
C34_EndsWithOneTerminal ==
    /\ StreamOver => (terminalCount = 1 /\ lastEvent \in TerminalEvents)
    /\ (wrapper_raised \/ pc = "raised") => lastEvent \in ErrorEvents
    /\ mpc \in {"done", "closed"} => manga_terminals = 1
    /\ manga_raised =>
          manga_event \notin {"none", "start", "progress", "panel",
                              "panel_error", "complete"}

\* C34: every stream emits exactly one terminal event, 'complete' or 'error',
\* as its last event; 'start' precedes every progress event; a non-streaming
\* wrapper raises if and only if its stream holds an 'error' event
C34_OneTerminalEventLast ==
    [](C34_EndsWithOneTerminal) /\ [][C34_Step]_vars

\* a dialogue stream that ended by the exception of _get_tts after its
\* 'start' and 'tts_progress' events, without a terminal event
C34_Witness ==
    /\ mode = "dialogue" /\ pc = "raised"
    /\ lastEvent = "tts_progress" /\ terminalCount = 0

\* ------------------------------------------------------------------------
\* generate_animated_story.py, Step 6 of music mode: the panel-locked lyrics
\* captions, next to the composition plan of generate_music (SpecLyrics)
\* ------------------------------------------------------------------------
MaxLyricPanels == 3

\* _extract_lyrics_lines: the lines that are neither blank nor a structure tag
ExtractLyricsLines(ly) ==
    SelectSeq([k \in 1..Len(ly) |-> k], LAMBDA k : ly[k] = "line")

\* panel_lyrics: lines_per_panel = max(1, len(lyrics_lines) // max(clip_count, 1))
\* lines for each panel
PanelLyrics(lyrics_lines, clip_count) ==
    LET lines_per_panel == Max(1, Len(lyrics_lines) \div Max(clip_count, 1))
    IN  [p \in 1..clip_count |->
            SubSeq(lyrics_lines, (p - 1) * lines_per_panel + 1,
                   Min(p * lines_per_panel, Len(lyrics_lines)))]

\* the loop over panel_lyrics: the window of panel pi (0-based) is
\* [pi * clip_duration_ms, (pi + 1) * clip_duration_ms] cut at
\* video_duration_ms, shortened by a margin and split evenly between the lines
CaptionSegments(lyrics_lines, clip_count) ==
    LET clip_duration_ms == clip_duration * 1000
        video_duration_ms == clip_count * clip_duration * 1000
        groups == PanelLyrics(lyrics_lines, clip_count)
        margin_ms == clip_duration_ms \div 10
        OfPanel(p) ==
            LET panel_start_ms == (p - 1) * clip_duration_ms
                panel_end_ms == Min(p * clip_duration_ms, video_duration_ms)
                caption_start == panel_start_ms + margin_ms
                caption_end == panel_end_ms - margin_ms
                line_duration_ms == (caption_end - caption_start)
                                       \div Max(Len(groups[p]), 1)
            IN  [li \in 1..Len(groups[p]) |->
                    [panel |-> p, line |-> groups[p][li],
                     startMs |-> caption_start + (li - 1) * line_duration_ms,
                     endMs |-> Min(caption_start + li * line_duration_ms,
                                   caption_end)]]
        RECURSIVE Upto(_)
        Upto(p) == IF p = 0 THEN <<>> ELSE Upto(p - 1) \o OfPanel(p)
    IN  IF lyrics_lines = <<>> THEN <<>> ELSE Upto(clip_count)

\* the music task returned music for clip_count panels of clip_duration
\* seconds; the video task returned its clips, at least one with a path
InitLyrics ==
    /\ PipelineIdle /\ SanitizerIdle /\ GroupingIdle /\ LinesIdle
    /\ ComposerIdle /\ VerifyIdle /\ TTSIdle /\ MangaIdle
    /\ DialogueAudioIdle /\ PollIdle /\ KaraokeIdle /\ RunsIdle
    /\ lyrics \in SeqsUpTo({"tag", "blank", "line"}, MaxLyricLines)
    /\ clip_ok \in { c \in UNION { [1..n -> BOOLEAN] : n \in 1..MaxLyricPanels } :
                       \E p \in DOMAIN c : c[p] }
    /\ music_duration = Len(clip_ok) * clip_duration
    /\ section_seconds = clip_duration
    /\ plan = [built |-> FALSE, sections |-> <<>>]
    /\ caption_segments = <<>> /\ ypc = "input"

\* Step 6: lyrics_lines = self._extract_lyrics_lines(lyrics) and the loops
\* that fill caption_segments
BuildCaptionSegments ==
    /\ ypc = "input" /\ plan.built
    /\ caption_segments' = CaptionSegments(ExtractLyricsLines(lyrics), Len(clip_ok))
    /\ ypc' = "built"
    /\ UNCHANGED <<clip_ok, base, kvars, runs>>

NextLyrics == BuildPlan \/ BuildCaptionSegments

SpecLyrics == InitLyrics /\ [][NextLyrics]_vars

\* the interval the clip of panel p occupies in the concatenation of the
\* clips that have a path, in ms; <<0, 0>> for a panel without clip
ClipInterval(p) ==
    LET before == Cardinality({ q \in 1..(p - 1) : clip_ok[q] })
    IN  IF clip_ok[p]
        THEN <<before * clip_duration * 1000, (before + 1) * clip_duration * 1000>>
        ELSE <<0, 0>>

\* the length of the concatenated video, in ms
ConcatenatedMs ==
    Cardinality({ q \in 1..Len(clip_ok) : clip_ok[q] }) * clip_duration * 1000

\* C37: whichever clips failed, every lyric caption lies inside the interval
\* of its own panel's clip in the final video, the captions are in time
\* order without overlap, and none ends after the end of the video
C37_CaptionsInsideOwnClip ==
    ypc = "built" =>
        /\ \A c \in 1..Len(caption_segments) :
              LET seg == caption_segments[c]
              IN  /\ clip_ok[seg.panel]
                  /\ ClipInterval(seg.panel)[1] <= seg.startMs
                  /\ seg.endMs <= ClipInterval(seg.panel)[2]
                  /\ seg.endMs <= ConcatenatedMs
        /\ \A c \in 1..(Len(caption_segments) - 1) :
              caption_segments[c].endMs <= caption_segments[c + 1].startMs

\* panel 1 has no clip and panel 2 has one: the caption of panel 2 begins
\* after the end of the 4 s video
C37_Witness ==
    /\ ypc = "built" /\ clip_ok = <<FALSE, TRUE>>
    /\ \E c \in 1..Len(caption_segments) :
          /\ caption_segments[c].panel = 2
          /\ caption_segments[c].startMs > ConcatenatedMs

\* the lines captioned in the window of panel p, in caption order
CaptionedLines(p) ==
    LET own == SelectSeq(caption_segments, LAMBDA seg : seg.panel = p)
    IN  [c \in 1..Len(own) |-> own[c].line]

\* C38: for any lyrics, the lines captioned during the window of panel p are
\* the lines of section p of the composition plan, in the same order
C38_CaptionsMatchPlanSections ==
    ypc = "built" =>
        /\ Len(plan.sections) = Len(clip_ok)
        /\ \A p \in 1..Len(clip_ok) : CaptionedLines(p) = plan.sections[p].lines

\* two panels, one line before the tag and two after it: the plan sings
\* line 1 in section 1 and lines 3, 4 in section 2, the captions show one
\* line for each panel
C38_Witness ==
    /\ ypc = "built" /\ Len(clip_ok) = 2
    /\ lyrics = <<"line", "tag", "line", "line">>
    /\ Len(plan.sections[2].lines) = 2
    /\ Len(CaptionedLines(2)) = 1

\* ------------------------------------------------------------------------
\* two runs of generate_animated_story_with_dialogue_streaming on one
\* AnimatedStoryGenerator, so on one set of output directories (SpecRuns)
\* ------------------------------------------------------------------------
NumRuns == 2          \* runs in flight together
NumRunPanels == 2     \* panels of a story

RunIds == 1..NumRuns

StoryIds == {"a1b2c3d4", "e5f6a7b8"}    \* values of manga_result.manga_id

RunCharacters == {"Mochi", "Hero"}      \* values of dialogue.speaker

\* a file path: the directory, then the parts its file name is formatted from
FilePath(dir, story, stem, k, tag, ext) ==
    [dir |-> dir, story |-> story, stem |-> stem, i |-> k, tag |-> tag, ext |-> ext]

\* the panels of the story that have a dialogue, in panel order (0-based)
DialoguePanels(speakers) ==
    { k \in 0..(Len(speakers) - 1) : speakers[k + 1] # "none" }

\* dialogue_lines_for_tts: the speakers of the panels with a dialogue
dialogue_lines_for_tts(speakers) == SelectSeq(speakers, LAMBDA c : c # "none")

\* QwenTTS.generate_dialogue: output_dir / f"dialogue_{i:02d}_{character}.wav"
DialogueAudioPaths(speakers) ==
    LET lines == dialogue_lines_for_tts(speakers)
    IN  { FilePath("audio", "", "dialogue", k - 1, lines[k], "wav") : k \in 1..Len(lines) }

\* VideoGenerator: video_id = str(uuid.uuid4())[:8];
\* f"clip_{clip_index + 1}_{video_id}.mp4", a fresh id for every clip
ClipVideoPaths(r, speakers) ==
    { FilePath("videos", "", "clip", k, <<"uuid4", r, k>>, "mp4") : k \in 1..Len(speakers) }

\* add_audio_to_clip with output_name f"story_{story_id}_clip_{i}_merged"
MergedPaths(story_id, speakers) ==
    { FilePath("final", story_id, "clip", k, "merged", "mp4") : k \in DialoguePanels(speakers) }

\* render_with_captions with output_name f"story_{story_id}_clip_{i}_captioned":
\* the .ass file and the .mp4
CaptionedPaths(story_id, speakers) ==
    { FilePath("rendered", story_id, "clip", k, "captioned", ext) :
        k \in DialoguePanels(speakers), ext \in {"ass", "mp4"} }

\* concatenate_scenes with output_name f"story_{story_id}_final": the concat
\* manifest and the output file
ConcatPaths(story_id) ==
    { FilePath("final", story_id, "final", -1, "concat", "txt"),
      FilePath("final", story_id, "final", -1, "", "mp4") }

InFlight(run) == run.pc \notin {"start", "done"}

InitRuns ==
    /\ PipelineIdle /\ SanitizerIdle /\ GroupingIdle /\ LinesIdle /\ ComposerIdle
    /\ VerifyIdle /\ TTSIdle /\ MangaIdle /\ PlanIdle
    /\ DialogueAudioIdle /\ PollIdle /\ KaraokeIdle /\ LyricsIdle
    /\ runs \in [RunIds -> [story_id : StoryIds,
                            speakers : [1..NumRunPanels -> RunCharacters \cup {"none"}],
                            pc : {"start"}, written : {{}}, concurrent : {FALSE}]]
    \* the same story requested twice is the same manga_result
    /\ \A r, q \in RunIds :
          runs[r].story_id = runs[q].story_id => runs[r].speakers = runs[q].speakers

\* story_id = manga_result.manga_id or str(uuid.uuid4())[:8]
RunStart(r) ==
    /\ runs[r].pc = "start"
    /\ runs' = [q \in RunIds |->
                  IF q = r
                  THEN [runs[q] EXCEPT !.pc = "tts",
                            !.concurrent = \E o \in RunIds \ {r} : InFlight(runs[o])]
                  ELSE [runs[q] EXCEPT !.concurrent = @ \/ InFlight(runs[q])]]
    /\ UNCHANGED <<base, kvars, yvars>>

\* tts_results = await tts.generate_dialogue(..., output_dir=self.output_dir / "audio")
RunGenerateDialogue(r) ==
    /\ runs[r].pc = "tts"
    /\ runs' = [runs EXCEPT ![r].pc = "clips",
                   ![r].written = @ \cup DialogueAudioPaths(runs[r].speakers)]
    /\ UNCHANGED <<base, kvars, yvars>>

\* the clip loop: one generated video file per panel
RunGenerateClips(r) ==
    /\ runs[r].pc = "clips"
    /\ runs' = [runs EXCEPT ![r].pc = "merge",
                   ![r].written = @ \cup ClipVideoPaths(r, runs[r].speakers)]
    /\ UNCHANGED <<base, kvars, yvars>>

\* merged_path = await self.composer.add_audio_to_clip(...)
RunMergeClips(r) ==
    /\ runs[r].pc = "merge"
    /\ runs' = [runs EXCEPT ![r].pc = "caption",
                   ![r].written = @ \cup MergedPaths(runs[r].story_id, runs[r].speakers)]
    /\ UNCHANGED <<base, kvars, yvars>>

\* captioned_path = await renderer.render_with_captions(...)
RunRenderCaptions(r) ==
    /\ runs[r].pc = "caption"
    /\ runs' = [runs EXCEPT ![r].pc = "concat",
                   ![r].written = @ \cup CaptionedPaths(runs[r].story_id, runs[r].speakers)]
    /\ UNCHANGED <<base, kvars, yvars>>

\* final_path = self.composer.concatenate_scenes(..., output_name=f"story_{story_id}_final")
RunConcatenate(r) ==
    /\ runs[r].pc = "concat"
    /\ runs' = [runs EXCEPT ![r].pc = "done",
                   ![r].written = @ \cup ConcatPaths(runs[r].story_id)]
    /\ UNCHANGED <<base, kvars, yvars>>

NextRuns ==
    \E r \in RunIds :
        \/ RunStart(r) \/ RunGenerateDialogue(r) \/ RunGenerateClips(r)
        \/ RunMergeClips(r) \/ RunRenderCaptions(r) \/ RunConcatenate(r)

SpecRuns == InitRuns /\ [][NextRuns]_vars

\* C32: two runs that were in flight together have written no file path in
\* common, whether they animate different stories or the same story
C32_NoPathWrittenTwice ==
    \A r, q \in DOMAIN runs :
        (r # q /\ runs[r].concurrent /\ runs[q].concurrent) =>
            runs[r].written \cap runs[q].written = {}

\* two different stories whose first dialogue line has the same speaker: both
\* runs wrote audio/dialogue_00_Mochi.wav
C32_Witness ==
    /\ runs # <<>>
    /\ runs[1].story_id # runs[2].story_id
    /\ runs[1].concurrent /\ runs[2].concurrent
    /\ runs[1].pc = "done" /\ runs[2].pc = "done"
    /\ FilePath("audio", "", "dialogue", 0, "Mochi", "wav")
          \in runs[1].written \cap runs[2].written

====
